---- MODULE Spec2Model ----
(***************************************************************************)
(* A model of the Qbit City server: the room registry (RoomManager), the   *)
(* game-state store and input buffers (QbitCityGameStateManager), the      *)
(* fixed-rate game loop (QbitCityGameLoop) and the socket handlers.        *)
(*                                                                         *)
(* Units.  Simulated time (gameTime, the spawn timers, immunityEndTime)    *)
(* is counted in ticks of 1/tickRate s, so "gameTime += deltaTime" is +1.  *)
(* Wall-clock time (Date.now(), input timestamps) is in milliseconds.      *)
(*                                                                         *)
(* In the game state space is abstract.  A player's position is a place:   *)
(* the position of a portal, or "elsewhere".  Coordinates, velocities and  *)
(* the boats are not part of the game state: every test the tick makes on  *)
(* a distance or a tile (a contact, a spawn attempt that finds no tile,    *)
(* where a movement leads) is an outcome chosen by the environment,        *)
(* passed to the tick in the record `o`.  Energy is counted in             *)
(* thousandths, speeds in units per second.                                *)
(*                                                                         *)
(* The tile map, the collision test and the movement and placement of a    *)
(* single player or enemy are modelled with coordinates, in the sections   *)
(* on the tile map and on positions, on a grid of MapSide x MapSide tiles; *)
(* the walk, respawn and map scenarios observe them in lastAction.         *)
(***************************************************************************)
EXTENDS Integers, Sequences, FiniteSets, TLC

VARIABLES
    now,           \* Date.now(), in ms
    rooms,         \* RoomManager.rooms, in insertion order
    roomStates,    \* QbitCityGameStateManager.roomStates: roomCode -> GameState
    inputBuffers,  \* QbitCityGameStateManager.inputBuffers: playerId -> Input[]
    gameLoop,      \* QbitCityGameLoop.isRunning and .tickInterval, and the
                   \* interval timers that are armed
    alive,         \* the server process has not been ended by an uncaught exception
    inputsSent,    \* observation: game events (player_input, deploy_sink,
                   \* activate_immunity, respawn_player) received so far
    lastTick,      \* observation: what the most recent tick did
    lastAction     \* observation: the most recent handler call and its outcome

vars == <<now, rooms, roomStates, inputBuffers, gameLoop, alive, inputsSent,
         lastTick, lastAction>>

----------------------------------------------------------------------------
(* Program constants *)

tickRate == 20
TICK_MS == 50
INPUT_BUFFER_SIZE == 60
MAX_INPUT_LAG == 1000
IMMUNITY_DURATION == 10
COLLECTIBLES_START_TIME == 30
COINS_FOR_IMMUNITY == 5
MAX_IMMUNITY_INVENTORY == 3
MAX_SINK_INVENTORY == 3
MAX_COINS == 40
MAX_SINK_COLLECTIBLES == 2
INITIAL_COINS == 20
DEFAULT_MAX_PLAYERS == 4
MIN_PLAYERS_TO_START == 1
BASE_PLAYER_SPEED == 300
BASE_ENEMY_SPEED == 250
ENEMY_SPEED_SPREAD == 30
SPEED_BOOST_TIME == 30
ENEMY_SPAWN_INTERVAL == 30
INITIAL_ENEMIES == 3
ENEMIES_PER_SPAWN == 2
INITIAL_PORTALS == 4
PORTAL_COOLDOWN == 2
PORTAL_LIFE == 10
TRAIL_LENGTH == 20
ENERGY_FULL == 1000
ENERGY_PER_TICK == 15

Seconds(s) == s * tickRate

\* speed * 1.2
Boosted(speed) == (speed * 12) \div 10

(* Bounds of the model *)

MaxTicks == 2
MaxInputs == 2
MaxTouch == 2
MaxSpawnFail == 1
MapSide == 10
MaxCalls == 2
MaxSeed == 19
MapSeed == 8
MaxMoves == 4
MaxStarts == 2
MaxAttempts == 2
RESPAWN_SAFE_DISTANCE == 500
PUSH_AWAY_DISTANCE == 500
Unit == 10
ENTITY_SIZE == 24
TILE_SIZE == 64
BLOCK_SIZE == 4
RNG_MULTIPLIER == 9301
RNG_INCREMENT == 49297
RNG_MODULUS == 233280
WATER_PERCENT == 5
GRASS_PERCENT == 15
SHOP_PERCENT == 90
CAFE_PERCENT == 80
TREE_PERCENT == 30

Sockets == {"p1", "p2"}
RoomCodes == {"R1", "R2"}

----------------------------------------------------------------------------
(* Helpers on sequences and maps *)

Range(s) == {s[i] : i \in 1..Len(s)}

Min(a, b) == IF a < b THEN a ELSE b

MapGet(m, k, dflt) == IF k \in DOMAIN m THEN m[k] ELSE dflt

MapSet(m, k, v) == [x \in DOMAIN m \cup {k} |-> IF x = k THEN v ELSE m[x]]

MapDelete(m, k) == [x \in DOMAIN m \ {k} |-> m[x]]

----------------------------------------------------------------------------
(* RoomManager *)

Room(code, socketId) ==
    [code |-> code, hostId |-> socketId, players |-> <<socketId>>,
     status |-> "waiting", maxPlayers |-> DEFAULT_MAX_PLAYERS]

RoomCodesInUse == {rooms[i].code : i \in 1..Len(rooms)}

RoomIndex(roomCode) ==
    IF roomCode \in RoomCodesInUse
    THEN CHOOSE i \in 1..Len(rooms) : rooms[i].code = roomCode
    ELSE 0

\* getRoom: the room, or "null"
GetRoom(roomCode) ==
    IF RoomIndex(roomCode) = 0 THEN "null" ELSE rooms[RoomIndex(roomCode)]

\* getRoomCodeForSocket: the first room, in insertion order, that the socket
\* hosts or is a player of; "null" when there is none
GetRoomCodeForSocket(socketId) ==
    LET hits == {i \in 1..Len(rooms) :
                    \/ rooms[i].hostId = socketId
                    \/ socketId \in Range(rooms[i].players)}
    IN IF hits = {} THEN "null"
       ELSE rooms[CHOOSE i \in hits : \A j \in hits : i <= j].code

\* Faulty variant: a room that is playing can be joined
ValidateJoinRoom_WhilePlaying(roomCode, socketId) ==
    /\ roomCode \in RoomCodesInUse
    /\ Len(GetRoom(roomCode).players) < GetRoom(roomCode).maxPlayers
    /\ socketId \notin Range(GetRoom(roomCode).players)

\* validateJoinRoom: the room exists, is not full, is not playing, and the
\* socket is not in it already
ValidateJoinRoom(roomCode, socketId) ==
    /\ roomCode \in RoomCodesInUse
    /\ Len(GetRoom(roomCode).players) < GetRoom(roomCode).maxPlayers
    /\ GetRoom(roomCode).status # "playing"
    /\ socketId \notin Range(GetRoom(roomCode).players)

ValidateStartGame(roomCode, socketId) ==
    /\ roomCode \in RoomCodesInUse
    /\ GetRoom(roomCode).hostId = socketId
    /\ GetRoom(roomCode).status # "playing"
    /\ Len(GetRoom(roomCode).players) >= MIN_PLAYERS_TO_START

\* The room a player action is routed to: the handlers' common prefix
\* "roomCode = getRoomCodeForSocket(socket.id); room = getRoom(roomCode);
\*  if (!room || room.status !== PLAYING) return"
PlayingRoomOf(socketId) ==
    LET roomCode == GetRoomCodeForSocket(socketId)
    IN IF roomCode # "null" /\ GetRoom(roomCode).status = "playing"
       THEN roomCode ELSE "null"

----------------------------------------------------------------------------
(* Input buffer: bufferPlayerInput *)

\* One buffered input; `moving` says whether a direction key is down in
\* input.keys.  `applied` is an observation: how many times
\* applyInputToPlayer has been called with this entry.
Input(moving, timestamp) ==
    [moving |-> moving, timestamp |-> timestamp, processed |-> FALSE, applied |-> 0]

\* The position of entry i after a stable sort by timestamp: behind every
\* entry with a smaller timestamp and every earlier entry with the same one
SortedPosition(buffer, i) ==
    Cardinality({j \in 1..Len(buffer) :
                    \/ buffer[j].timestamp < buffer[i].timestamp
                    \/ buffer[j].timestamp = buffer[i].timestamp /\ j < i}) + 1

StableSort(buffer) ==
    LET position == [i \in 1..Len(buffer) |-> SortedPosition(buffer, i)]
    IN [pos \in 1..Len(buffer) |->
           buffer[CHOOSE i \in 1..Len(buffer) : position[i] = pos]]

\* Faulty variant: the push is not followed by a sort
SortByTimestamp_Unsorted(buffer) == buffer

\* buffer.sort((a, b) => a.timestamp - b.timestamp): Array.prototype.sort is
\* stable, entries of equal timestamp keep their order
SortByTimestamp(buffer) == StableSort(buffer)

\* Faulty variant: the oldest entry is never dropped
LimitBufferSize_NoShift(buffer) == buffer

\* if (buffer.length > 60) buffer.shift()
LimitBufferSize(buffer) ==
    IF Len(buffer) > INPUT_BUFFER_SIZE THEN Tail(buffer) ELSE buffer

BufferPlayerInput(buffers, playerId, moving, timestamp) ==
    LET buffer == MapGet(buffers, playerId, <<>>)
        pushed == Append(buffer, Input(moving, timestamp))
    IN MapSet(buffers, playerId, LimitBufferSize(SortByTimestamp(pushed)))

----------------------------------------------------------------------------
(* Input consumption: processPlayerInputs *)

\* Faulty variant: the oldest eligible input is selected
FindLatest_Oldest(buffer, currentTime, i, latestIndex) ==
    LET hits == {j \in 1..Len(buffer) :
                    ~buffer[j].processed /\ buffer[j].timestamp <= currentTime}
    IN IF hits = {} THEN 0 ELSE CHOOSE j \in hits : \A k \in hits : j <= k

\* The selection loop "for (i = buffer.length - 1; i >= 0; i--)", from
\* position i down, with latestIndex the selection so far (0: none)
RECURSIVE FindLatest(_, _, _, _)
FindLatest(buffer, currentTime, i, latestIndex) ==
    IF i < 1 THEN latestIndex
    ELSE IF /\ ~buffer[i].processed
            /\ buffer[i].timestamp <= currentTime
            /\ \/ latestIndex = 0
               \/ buffer[i].timestamp > buffer[latestIndex].timestamp
         THEN FindLatest(buffer, currentTime, i - 1, i)
         ELSE FindLatest(buffer, currentTime, i - 1, latestIndex)

\* Faulty variant: the applied input itself is left unprocessed
MarkProcessed_OlderOnly(buffer, latestIndex, currentTime) ==
    [i \in 1..Len(buffer) |->
        IF i = latestIndex
        THEN [buffer[i] EXCEPT !.applied = @ + 1]
        ELSE IF i < latestIndex /\ buffer[i].timestamp <= currentTime
             THEN [buffer[i] EXCEPT !.processed = TRUE]
             ELSE buffer[i]]

\* latestInput.processed = true, and every entry before it whose timestamp
\* is <= currentTime is marked processed too (superseded)
MarkProcessed(buffer, latestIndex, currentTime) ==
    [i \in 1..Len(buffer) |->
        IF i = latestIndex
        THEN [buffer[i] EXCEPT !.processed = TRUE, !.applied = @ + 1]
        ELSE IF i < latestIndex /\ buffer[i].timestamp <= currentTime
             THEN [buffer[i] EXCEPT !.processed = TRUE]
             ELSE buffer[i]]

\* buffer.filter(input => !input.processed || currentTime - input.timestamp < 1000)
RemoveOldProcessed(buffer, currentTime) ==
    LET Keep(input) ==
            ~input.processed \/ currentTime - input.timestamp < MAX_INPUT_LAG
    IN SelectSeq(buffer, Keep)

----------------------------------------------------------------------------
(* Game state: initializeRoom, initializePlayers *)

Player(id) ==
    [id |-> id, place |-> "elsewhere", speed |-> BASE_PLAYER_SPEED,
     trail |-> <<>>, portalCooldown |-> 0,
     coinsCollected |-> 0, immunityInventory |-> 0,
     sinkInventory |-> 0, energy |-> 0,
     immunityActive |-> FALSE, immunityEndTime |-> 0]

\* initializePlayers: one player per room member, in the room's order
InitializePlayers(room) == [i \in 1..Len(room.players) |-> Player(room.players[i])]

\* spawnEnemy, when it finds a tile: an enemy of the drawn speed.  `boosts`
\* is an observation: how many times the speed has been multiplied by 1.2.
Enemy(speed) == [speed |-> speed, boosts |-> 0]

\* The portal a tile draw of generatePortals makes, at the centre of its
\* tile; it has no life field (`timed` says whether a portal has one)
Portal(place) ==
    [place |-> place, timed |-> FALSE, life |-> 0, isPlayerCreated |-> FALSE]

\* The centres of the road tiles that generatePortals draws
Tiles == <<"t1", "t2", "t3", "t4">>

\* generatePortals: 4 portals, here on 4 different tiles
GeneratePortals == [i \in 1..INITIAL_PORTALS |-> Portal(Tiles[i])]

\* The GameState built by initializeRoom.  `draw` holds the three random
\* first thresholds of the spawn timers, in ticks, and the speeds of the
\* enemies that spawnEnemy found a tile for.
GameState(room, draw) ==
    [roomCode |-> room.code,
     players |-> InitializePlayers(room),
     enemies |-> [i \in 1..Len(draw.enemies) |-> Enemy(draw.enemies[i])],
     coins |-> <<>>,
     immunityPickups |-> <<>>,
     sinkCollectibles |-> <<>>,
     deployedSinks |-> <<>>,
     portals |-> GeneratePortals,
     gameTime |-> 0,
     enemySpawnTimer |-> 0,
     coinSpawnTimer |-> 0,
     immunityPickupSpawnTimer |-> 0,
     sinkSpawnTimer |-> 0,
     nextCoinSpawnTime |-> draw.nextCoinSpawnTime,
     nextImmunityPickupSpawnTime |-> draw.nextImmunityPickupSpawnTime,
     nextSinkSpawnTime |-> draw.nextSinkSpawnTime,
     collectiblesInitialized |-> FALSE,
     coinsInitialized |-> FALSE,
     speedBoostApplied |-> FALSE]

\* gameState.players.find(p => p.id === socket.id): its index, 0 when absent
PlayerIndex(gameState, playerId) ==
    LET hits == {i \in 1..Len(gameState.players) : gameState.players[i].id = playerId}
    IN IF hits = {} THEN 0 ELSE CHOOSE i \in hits : \A j \in hits : i <= j

\* list.filter(x => !x.collected).length, for a list of collected flags
Uncollected(list) == Cardinality({i \in 1..Len(list) : ~list[i]})

UncollectedPickups(list) == Cardinality({i \in 1..Len(list) : ~list[i].collected})

\* The first k uncollected entries of a list of collected flags become collected
MarkCollected(list, k) ==
    [i \in 1..Len(list) |->
        list[i] \/ (k > 0 /\ Cardinality({j \in 1..i : ~list[j]}) <= k)]

----------------------------------------------------------------------------
(* applyInputToPlayer *)

\* trail.push(position); if (trail.length > 20) trail.shift()
PushTrail(trail, place) ==
    IF Len(trail) + 1 > TRAIL_LENGTH THEN Tail(Append(trail, place))
    ELSE Append(trail, place)

\* applyInputToPlayer.  With a direction key down the player moves to
\* `moveTo`, the place the collision tests of the movement leave it at, its
\* energy grows by deltaTime * 0.3 up to 1 and its position joins the trail;
\* with or without one, a running portal cooldown loses deltaTime and an
\* immunity whose end time has come is switched off.
ApplyInputToPlayer(player, input, gameState, moveTo) ==
    LET moved == IF input.moving
                 THEN [player EXCEPT
                          !.place = moveTo,
                          !.energy = Min(ENERGY_FULL, @ + ENERGY_PER_TICK),
                          !.trail = PushTrail(@, moveTo)]
                 ELSE player
        cooled == IF moved.portalCooldown > 0
                  THEN [moved EXCEPT !.portalCooldown = @ - 1]
                  ELSE moved
    IN IF cooled.immunityActive /\ gameState.gameTime >= cooled.immunityEndTime
       THEN [cooled EXCEPT !.immunityActive = FALSE]
       ELSE cooled

\* The world a tick threads through its loops: the two stores, and what the
\* tick has done so far (each player's buffer as the tick found it and as the
\* marking loop left it, the inputs applied, the snapshots emitted, the rooms
\* updated, the events emitted besides the snapshots, whether an exception
\* is propagating)
World ==
    [roomStates |-> roomStates,
     inputBuffers |-> inputBuffers,
     before |-> [s \in Sockets |-> <<>>],
     marked |-> [s \in Sockets |-> <<>>],
     applied |-> [s \in Sockets |-> <<>>],
     broadcasts |-> [c \in RoomCodes |-> <<>>],
     updated |-> {},
     events |-> <<>>,
     hops |-> <<>>,
     thrown |-> "none"]

\* The body of processPlayerInputs' forEach for the player at index k; o is
\* the room's outcome
ProcessPlayer(w, roomCode, k, currentTime, o) ==
    LET gameState == w.roomStates[roomCode]
        player == gameState.players[k]
        buffer == MapGet(w.inputBuffers, player.id, <<>>)
        latestIndex == FindLatest(buffer, currentTime, Len(buffer), 0)
        marked == IF latestIndex = 0 THEN buffer
                  ELSE MarkProcessed(buffer, latestIndex, currentTime)
        activeBuffer == RemoveOldProcessed(marked, currentTime)
    IN [w EXCEPT
          !.roomStates[roomCode].players[k] =
              IF latestIndex = 0 THEN player
              ELSE ApplyInputToPlayer(player, buffer[latestIndex], gameState,
                                      o.contact[player.id].moveTo),
          !.inputBuffers = MapSet(w.inputBuffers, player.id, activeBuffer),
          !.before[player.id] = buffer,
          !.marked[player.id] = marked,
          !.applied[player.id] =
              IF latestIndex = 0 THEN @
              ELSE Append(@, buffer[latestIndex].timestamp)]

RECURSIVE ProcessPlayersFrom(_, _, _, _, _)
ProcessPlayersFrom(w, roomCode, k, currentTime, o) ==
    IF k > Len(w.roomStates[roomCode].players) THEN w
    ELSE ProcessPlayersFrom(ProcessPlayer(w, roomCode, k, currentTime, o),
                            roomCode, k + 1, currentTime, o)

ProcessPlayerInputs(w, roomCode, currentTime, o) ==
    ProcessPlayersFrom(w, roomCode, 1, currentTime, o)

----------------------------------------------------------------------------
(* handleSpawning *)

\* Faulty variant: the boost is not guarded by speedBoostApplied
SpeedBoostStep_Unguarded(gameState) ==
    IF gameState.gameTime >= Seconds(SPEED_BOOST_TIME)
    THEN [gameState EXCEPT
            !.speedBoostApplied = TRUE,
            !.players = [k \in 1..Len(@) |->
                            [@[k] EXCEPT !.speed = Boosted(BASE_PLAYER_SPEED)]],
            !.enemies = [i \in 1..Len(@) |->
                            [@[i] EXCEPT !.speed = Boosted(@), !.boosts = @ + 1]]]
    ELSE gameState

\* The head of handleSpawning: "if (!speedBoostApplied && gameTime >= 30)",
\* every player's speed becomes BASE_PLAYER_SPEED * 1.2 and every enemy's
\* speed is multiplied by 1.2
SpeedBoostStep(gameState) ==
    IF ~gameState.speedBoostApplied /\ gameState.gameTime >= Seconds(SPEED_BOOST_TIME)
    THEN [gameState EXCEPT
            !.speedBoostApplied = TRUE,
            !.players = [k \in 1..Len(@) |->
                            [@[k] EXCEPT !.speed = Boosted(BASE_PLAYER_SPEED)]],
            !.enemies = [i \in 1..Len(@) |->
                            [@[i] EXCEPT !.speed = Boosted(@), !.boosts = @ + 1]]]
    ELSE gameState

\* The enemy that the spawn loop pushes for a spawnEnemy result of the given
\* speed: "if (gameState.speedBoostApplied) enemy.speed = enemy.speed * 1.2"
SpawnedEnemy(gameState, speed) ==
    IF gameState.speedBoostApplied
    THEN [Enemy(speed) EXCEPT !.speed = Boosted(@), !.boosts = @ + 1]
    ELSE Enemy(speed)

\* The tail of handleSpawning: every 30 s two calls of spawnEnemy;
\* o.enemies holds the speeds of the enemies that found a tile
SpawnEnemiesStep(gameState, o) ==
    LET timed == [gameState EXCEPT !.enemySpawnTimer = @ + 1]
    IN IF timed.enemySpawnTimer >= Seconds(ENEMY_SPAWN_INTERVAL)
       THEN [timed EXCEPT
               !.enemySpawnTimer = 0,
               !.enemies = @ \o [i \in 1..Len(o.enemies) |->
                                    SpawnedEnemy(timed, o.enemies[i])]]
       ELSE timed

\* Faulty variant: no cap on uncollected coins
CoinsAtCap_Never(gameState) == FALSE

\* spawnCoin's first line:
\* "if (coins.filter(c => !c.collected).length >= MAX_COINS) return"
CoinsAtCap(gameState) == Uncollected(gameState.coins) >= MAX_COINS

\* spawnCoin: nothing at the cap of 40 uncollected coins; otherwise up to 100
\* random tiles are tried, and `found` says whether one of them was a road
\* tile at least 200 units from every player
SpawnCoin(gameState, found) ==
    IF CoinsAtCap(gameState) THEN gameState
    ELSE IF found THEN [gameState EXCEPT !.coins = Append(@, FALSE)]
    ELSE gameState

\* "for (i = 0; i < n; i++) this.spawnCoin(gameState)": the calls numbered
\* call .. call + n - 1 of this tick; the first o.coinFail calls of a tick
\* find no tile.  At the cap every remaining call returns at its first
\* line, so the loop leaves the state as it is.
RECURSIVE SpawnCoins(_, _, _, _)
SpawnCoins(gameState, n, call, o) ==
    IF n = 0 \/ CoinsAtCap(gameState) THEN gameState
    ELSE SpawnCoins(SpawnCoin(gameState, call > o.coinFail), n - 1, call + 1, o)

\* spawnImmunityPickup(gameState, quadrant)
SpawnImmunityPickup(gameState, quadrant, found) ==
    IF found
    THEN [gameState EXCEPT !.immunityPickups =
              Append(@, [collected |-> FALSE, quadrant |-> quadrant])]
    ELSE gameState

\* Faulty variant: no cap on uncollected sink collectibles
SpawnSinkCollectible_NoCap(gameState, found) ==
    IF found THEN [gameState EXCEPT !.sinkCollectibles = Append(@, FALSE)]
    ELSE gameState

\* spawnSinkCollectible: nothing at the cap of 2 uncollected; `found` as for
\* spawnCoin, with 300 units
SpawnSinkCollectible(gameState, found) ==
    IF Uncollected(gameState.sinkCollectibles) >= MAX_SINK_COLLECTIBLES THEN gameState
    ELSE IF found THEN [gameState EXCEPT !.sinkCollectibles = Append(@, FALSE)]
    ELSE gameState

\* The coin part of handleSpawning: seeding, then the periodic batch
SpawnCoinsStep(gameState, o) ==
    LET seeded == IF gameState.coinsInitialized THEN gameState
                  ELSE SpawnCoins([gameState EXCEPT !.coinsInitialized = TRUE],
                                  INITIAL_COINS, 1, o)
        calls == IF gameState.coinsInitialized THEN 0 ELSE INITIAL_COINS
        timed == [seeded EXCEPT !.coinSpawnTimer = @ + 1]
    IN IF timed.coinSpawnTimer >= timed.nextCoinSpawnTime
       THEN SpawnCoins([timed EXCEPT !.coinSpawnTimer = 0,
                                     !.nextCoinSpawnTime = o.nextCoinSpawnTime],
                       o.numCoins, calls + 1, o)
       ELSE timed

\* "for (q = 0; q < 4; q++) if (want(q)) spawnImmunityPickup(gameState, q)"
RECURSIVE SpawnImmunityPickups(_, _, _, _)
SpawnImmunityPickups(gameState, q, want, o) ==
    IF q > 3 THEN gameState
    ELSE SpawnImmunityPickups(
            IF q \in want
            THEN SpawnImmunityPickup(gameState, q, q \in o.immunityFound)
            ELSE gameState,
            q + 1, want, o)

\* quadrantCounts[q] < 2, counted before the top-up loop
QuadrantsBelowTwo(gameState) ==
    {q \in 0..3 :
        Cardinality({i \in 1..Len(gameState.immunityPickups) :
                        /\ ~gameState.immunityPickups[i].collected
                        /\ gameState.immunityPickups[i].quadrant = q}) < 2}

\* Faulty variant: the collectibles are never locked
CollectiblesUnlocked_Always(gameState) == TRUE

\* "if (gameState.gameTime >= COLLECTIBLES_START_TIME)"
CollectiblesUnlocked(gameState) ==
    gameState.gameTime >= Seconds(COLLECTIBLES_START_TIME)

\* The part of handleSpawning under "gameTime >= COLLECTIBLES_START_TIME"
SpawnCollectiblesStep(gameState, o) ==
    IF ~CollectiblesUnlocked(gameState) THEN gameState
    ELSE
      LET first == IF gameState.collectiblesInitialized THEN gameState
                   ELSE SpawnSinkCollectible(
                           SpawnImmunityPickups(
                               [gameState EXCEPT !.collectiblesInitialized = TRUE],
                               0, 0..3, o),
                           o.sinkFound)
          t1 == [first EXCEPT !.immunityPickupSpawnTimer = @ + 1]
          topped == IF t1.immunityPickupSpawnTimer >= t1.nextImmunityPickupSpawnTime
                    THEN SpawnImmunityPickups(
                            [t1 EXCEPT !.immunityPickupSpawnTimer = 0,
                                       !.nextImmunityPickupSpawnTime =
                                            o.nextImmunityPickupSpawnTime],
                            0, QuadrantsBelowTwo(t1), o)
                    ELSE t1
          t2 == [topped EXCEPT !.sinkSpawnTimer = @ + 1]
      IN IF t2.sinkSpawnTimer >= t2.nextSinkSpawnTime
         THEN SpawnSinkCollectible(
                 [t2 EXCEPT !.sinkSpawnTimer = 0,
                            !.nextSinkSpawnTime = o.nextSinkSpawnTime],
                 o.sinkFound)
         ELSE t2

\* handleSpawning: the speed boost, the coins, the other collectibles, the
\* enemies
HandleSpawning(gameState, o) ==
    SpawnEnemiesStep(
        SpawnCollectiblesStep(SpawnCoinsStep(SpeedBoostStep(gameState), o), o), o)

\* updateCollectibles: the three lists lose their collected entries
UpdateCollectibles(gameState) ==
    LET NotFlag(c) == ~c
        NotCollected(x) == ~x.collected
    IN [gameState EXCEPT
          !.coins = SelectSeq(@, NotFlag),
          !.immunityPickups = SelectSeq(@, NotCollected),
          !.sinkCollectibles = SelectSeq(@, NotFlag)]

\* Faulty variant: a portal whose life has just run out is kept
UpdatePortals_KeepsSpent(gameState) ==
    LET Aged(portal) == IF portal.timed THEN [portal EXCEPT !.life = @ - 1]
                        ELSE portal
        Live(portal) == ~portal.timed \/ portal.life >= 0
    IN [gameState EXCEPT
          !.portals = SelectSeq([i \in 1..Len(@) |-> Aged(@[i])], Live)]

\* updatePortals: a portal with a life loses deltaTime of it, and
\* "portals.filter(p => !p.life || p.life > 0)" drops the spent ones.  (A
\* life counted down from 10.0 in steps of 0.05 passes below 0 at the 200th
\* step without ever being 0, so !p.life holds only for the static portals.)
UpdatePortals(gameState) ==
    LET Aged(portal) == IF portal.timed THEN [portal EXCEPT !.life = @ - 1]
                        ELSE portal
        Live(portal) == ~portal.timed \/ portal.life > 0
    IN [gameState EXCEPT
          !.portals = SelectSeq([i \in 1..Len(@) |-> Aged(@[i])], Live)]

----------------------------------------------------------------------------
(* checkCollisions *)

\* Faulty variant: at 3 charges the counter wraps to 0 instead of holding at 4
CollectCoin_WrapAtCap(player) ==
    IF player.coinsCollected + 1 >= COINS_FOR_IMMUNITY
    THEN [player EXCEPT !.coinsCollected = 0,
                        !.immunityInventory = Min(@ + 1, MAX_IMMUNITY_INVENTORY)]
    ELSE [player EXCEPT !.coinsCollected = @ + 1]

\* One coin within 25 units: coinsCollected++, then the conversion
CollectCoin(player) ==
    IF player.coinsCollected + 1 >= COINS_FOR_IMMUNITY
    THEN IF player.immunityInventory < MAX_IMMUNITY_INVENTORY
         THEN [player EXCEPT !.immunityInventory = @ + 1, !.coinsCollected = 0]
         ELSE [player EXCEPT !.coinsCollected = COINS_FOR_IMMUNITY - 1]
    ELSE [player EXCEPT !.coinsCollected = @ + 1]

RECURSIVE CollectCoins(_, _)
CollectCoins(player, n) ==
    IF n = 0 THEN player ELSE CollectCoins(CollectCoin(player), n - 1)

\* Faulty variant: a sink collectible is taken whatever the inventory
CanCollectSink_Always(player) == TRUE

\* "if (player.sinkInventory < 3)"
CanCollectSink(player) == player.sinkInventory < MAX_SINK_INVENTORY

\* The sink-collectible loop for one player: each of the n uncollected
\* collectibles within 30 units is taken while the inventory is below 3.
\* The result is the player and the number taken.
RECURSIVE CollectSinks(_, _, _)
CollectSinks(player, n, taken) ==
    IF n = 0 THEN [player |-> player, taken |-> taken]
    ELSE IF CanCollectSink(player)
         THEN CollectSinks([player EXCEPT !.sinkInventory = @ + 1], n - 1, taken + 1)
         ELSE CollectSinks(player, n - 1, taken)

\* The first k uncollected immunity pickups become collected
MarkPickupsCollected(list, k) ==
    [i \in 1..Len(list) |->
        [list[i] EXCEPT !.collected =
            @ \/ Cardinality({j \in 1..i : ~list[j].collected}) <= k]]

\* The event "player_death", emitted to the room.  `cause` is an
\* observation: the test that signalled it.
PlayerDeath(gameState, player, cause) ==
    [event |-> "player_death", to |-> gameState.roomCode,
     playerId |-> player.id, cause |-> cause]

\* The enemy loop for one player: each of the n enemies within reach signals
\* a death unless the player is immune (the enemy is then moved away)
EnemyDeaths(gameState, player, n) ==
    IF player.immunityActive THEN <<>>
    ELSE [i \in 1..n |-> PlayerDeath(gameState, player, "enemy")]

\* gameState.portals.filter((_, idx) => idx !== i), as indices
OtherPortals(portals, i) ==
    [j \in 1..Len(portals) - 1 |-> IF j < i THEN j ELSE j + 1]

\* otherPortals[Math.floor(Math.random() * otherPortals.length)], as an
\* index of gameState.portals; `pick` is the floored draw
Destination(portals, i, pick) ==
    OtherPortals(portals, i)[(pick % (Len(portals) - 1)) + 1]

\* The portal loop "gameState.portals.forEach((portal, i) => ...)" from
\* portal i on, for a player whose cooldown was <= 0 when the loop began.
\* The player is within 20 units of a portal when it is at its place.
\* picks[i] is the draw made at portal i.  The result is the player and the
\* hops made, an observation.
RECURSIVE PortalLoop(_, _, _, _, _)
PortalLoop(player, portals, i, picks, hops) ==
    IF i > Len(portals) THEN [player |-> player, hops |-> hops]
    ELSE IF portals[i].place = player.place /\ Len(portals) - 1 > 0
         THEN LET dest == Destination(portals, i, MapGet(picks, i, 0))
              IN PortalLoop([player EXCEPT !.place = portals[dest].place,
                                           !.portalCooldown = Seconds(PORTAL_COOLDOWN),
                                           !.trail = <<>>],
                            portals, i + 1, picks,
                            Append(hops, [playerId |-> player.id,
                                          from |-> i, to |-> dest]))
         ELSE PortalLoop(player, portals, i + 1, picks, hops)

\* "if (player.portalCooldown <= 0) gameState.portals.forEach(...)"
UsePortals(player, portals, picks) ==
    IF player.portalCooldown <= 0 THEN PortalLoop(player, portals, 1, picks, <<>>)
    ELSE [player |-> player, hops |-> <<>>]

\* Faulty variant: a player on lava without a boat is signalled dead, and
\* the other checks still run for it
SkipsOnLava_Never(c) == FALSE

\* "if (tile === 4 && !onBoat) { emit player_death; return }"
SkipsOnLava(c) == c.lava /\ ~c.boat

\* The body of checkCollisions' forEach for the player at index k.  g holds
\* the game state, the events emitted and the portal hops made so far.  c is
\* what this player is in contact with when its turn comes: c.lava (its tile
\* is lava), c.boat (a boat's footprint overlaps its own), and the numbers
\* of enemies within reach, uncollected coins within 25, uncollected
\* immunity pickups within 30, uncollected sink collectibles within 30, and
\* deployed sinks within 25 of an enemy; c.picks are the draws of the portal
\* loop.
CollidePlayer(g, k, c) ==
    LET gameState == g.gameState
        player == gameState.players[k]
        lavaDeath == IF c.lava /\ ~c.boat
                     THEN <<PlayerDeath(gameState, player, "lava")>> ELSE <<>>
    IN IF SkipsOnLava(c) THEN [g EXCEPT !.events = @ \o lavaDeath]
       ELSE
         LET nEnemies == Min(c.enemies, Len(gameState.enemies))
             nCoins == Min(c.coins, Uncollected(gameState.coins))
             nPickups == Min(c.pickups, UncollectedPickups(gameState.immunityPickups))
             nSinks == Min(c.sinks, Uncollected(gameState.sinkCollectibles))
             nHit == IF gameState.enemies = <<>> THEN 0
                     ELSE Min(c.sinksNearEnemy, Len(gameState.deployedSinks))
             p1 == CollectCoins(player, nCoins)
             p2 == IF nPickups > 0
                   THEN [p1 EXCEPT !.immunityActive = TRUE,
                                   !.immunityEndTime =
                                       gameState.gameTime + Seconds(IMMUNITY_DURATION)]
                   ELSE p1
             got == CollectSinks(p2, nSinks, 0)
             ported == UsePortals(got.player, gameState.portals, c.picks)
         IN [gameState |->
                [gameState EXCEPT
                    !.players[k] = ported.player,
                    !.coins = MarkCollected(@, nCoins),
                    !.immunityPickups = MarkPickupsCollected(@, nPickups),
                    !.sinkCollectibles = MarkCollected(@, got.taken),
                    !.deployedSinks = SubSeq(@, nHit + 1, Len(@))],
             events |-> g.events \o lavaDeath
                                 \o EnemyDeaths(gameState, player, nEnemies),
             hops |-> g.hops \o ported.hops]

RECURSIVE CollideFrom(_, _, _)
CollideFrom(g, k, o) ==
    IF k > Len(g.gameState.players) THEN g
    ELSE CollideFrom(CollidePlayer(g, k, o.contact[g.gameState.players[k].id]),
                     k + 1, o)

\* checkCollisions: the game state it leaves, the events it emits and the
\* portal hops it makes
CheckCollisions(gameState, o) ==
    CollideFrom([gameState |-> gameState, events |-> <<>>, hops |-> <<>>], 1, o)

\* checkCollisions as a step of the world
Collide(w, roomCode, o) ==
    LET g == CheckCollisions(w.roomStates[roomCode], o)
    IN [w EXCEPT !.roomStates[roomCode] = g.gameState,
                 !.events = @ \o g.events,
                 !.hops = @ \o g.hops]

----------------------------------------------------------------------------
(* broadcastGameState *)

\* The client state: the players, the uncollected entries of the three
\* pickup lists, the deployed sinks and the game time
\* Faulty variant: the snapshot carries the lists as they are
ClientState_Unfiltered(gameState) ==
    [players |-> gameState.players,
     enemies |-> gameState.enemies,
     coins |-> gameState.coins,
     immunityPickups |-> gameState.immunityPickups,
     sinkCollectibles |-> gameState.sinkCollectibles,
     deployedSinks |-> gameState.deployedSinks,
     portals |-> gameState.portals,
     gameTime |-> gameState.gameTime]

ClientState(gameState) ==
    LET NotFlag(c) == ~c
        NotCollected(x) == ~x.collected
    IN [players |-> gameState.players,
        enemies |-> gameState.enemies,
        coins |-> SelectSeq(gameState.coins, NotFlag),
        immunityPickups |-> SelectSeq(gameState.immunityPickups, NotCollected),
        sinkCollectibles |-> SelectSeq(gameState.sinkCollectibles, NotFlag),
        deployedSinks |-> gameState.deployedSinks,
        portals |-> gameState.portals,
        gameTime |-> gameState.gameTime]

BroadcastGameState(w, roomCode) ==
    [w EXCEPT !.broadcasts[roomCode] = Append(@, ClientState(w.roomStates[roomCode]))]

----------------------------------------------------------------------------
(* The game loop: updateRoom, tick *)

NoFault == [room |-> "none", stage |-> 0]

\* The game loop as its constructor leaves it.  tickInterval is the handle
\* of the loop's timer, 0 for null; timers are the handles of the interval
\* timers that are armed, and made counts the calls of setInterval.
Constructed == [isRunning |-> FALSE, tickInterval |-> 0, timers |-> {}, made |-> 0]

\* Faulty variant: start() without "if (this.isRunning) return"
StartLoop_Unguarded(loop) ==
    [isRunning |-> TRUE, tickInterval |-> loop.made + 1,
     timers |-> loop.timers \cup {loop.made + 1}, made |-> loop.made + 1]

\* start(): the loop it leaves
StartLoop(loop) ==
    IF loop.isRunning THEN loop
    ELSE [isRunning |-> TRUE, tickInterval |-> loop.made + 1,
          timers |-> loop.timers \cup {loop.made + 1}, made |-> loop.made + 1]

\* stop(): the loop it leaves
StopLoop(loop) ==
    [isRunning |-> FALSE, tickInterval |-> 0,
     timers |-> IF loop.tickInterval # 0 THEN loop.timers \ {loop.tickInterval}
                ELSE loop.timers,
     made |-> loop.made]

\* The loop of the running server: "gameLoop.start()" follows the
\* construction
Started == StartLoop(Constructed)

\* The observation of the last event: its name, its socket, its result, and
\* the 'action_error' messages it emitted
Did(name, socketId, result) ==
    [name |-> name, socket |-> socketId, result |-> result, errors |-> <<>>]

\* The observation of a game event that ended in
\* "socket.emit('action_error', { message })"
Rejected(name, socketId, message) ==
    [name |-> name, socket |-> socketId, result |-> "rejected",
     errors |-> <<[to |-> socketId, message |-> message]>>]

\* Faulty variant: the snapshot is sent before the collision pass
RoomSteps_BroadcastBeforeCollisions(w, roomCode, currentTime, o, upto) ==
    LET advanced == [w EXCEPT !.roomStates[roomCode].gameTime = @ + 1]
        processed == ProcessPlayerInputs(advanced, roomCode, currentTime, o)
        spawned == [processed EXCEPT
                       !.roomStates[roomCode] =
                           UpdatePortals(UpdateCollectibles(HandleSpawning(@, o)))]
        sent == BroadcastGameState(spawned, roomCode)
    IN Collide(sent, roomCode, o)

\* updateRoom's steps in the code's order, as far as stage `upto`:
\* 0 gameTime += deltaTime, 1 processPlayerInputs, 2 handleSpawning,
\* 3 updateCollectibles and updatePortals, 4 checkCollisions,
\* 5 broadcastGameState.  (updateBoats and updateEnemies, between 1 and 2,
\* act on no modelled field.)
RECURSIVE RoomSteps(_, _, _, _, _)
RoomSteps(w, roomCode, currentTime, o, upto) ==
    IF upto = 0
    THEN [w EXCEPT !.roomStates[roomCode].gameTime = @ + 1]
    ELSE LET prev == RoomSteps(w, roomCode, currentTime, o, upto - 1)
         IN CASE upto = 1 -> ProcessPlayerInputs(prev, roomCode, currentTime, o)
              [] upto = 2 -> [prev EXCEPT !.roomStates[roomCode] = HandleSpawning(@, o)]
              [] upto = 3 -> [prev EXCEPT !.roomStates[roomCode] =
                                             UpdatePortals(UpdateCollectibles(@))]
              [] upto = 4 -> Collide(prev, roomCode, o)
              [] upto = 5 -> BroadcastGameState(prev, roomCode)

\* updateRoom.  A fault in this room at stage k is an exception thrown when
\* stage k starts: the earlier steps have acted, the later ones do not run,
\* and nothing in updateRoom or tick catches it.
UpdateRoom(w, roomCode, currentTime, o, fault) ==
    IF roomCode \notin DOMAIN w.roomStates THEN w
    ELSE IF fault.room = roomCode
         THEN [RoomSteps(w, roomCode, currentTime, o, fault.stage - 1)
                  EXCEPT !.thrown = roomCode]
         ELSE [RoomSteps(w, roomCode, currentTime, o, 5)
                  EXCEPT !.updated = @ \cup {roomCode}]

\* tick's "getAllRooms().forEach(room => ...)" from room i on; an exception
\* thrown by one call of the callback ends the forEach
RECURSIVE TickRooms(_, _, _, _, _)
TickRooms(w, i, currentTime, o, fault) ==
    IF i > Len(rooms) \/ w.thrown # "none" THEN w
    ELSE TickRooms(
            IF rooms[i].status = "playing"
            THEN UpdateRoom(w, rooms[i].code, currentTime, o[rooms[i].code], fault)
            ELSE w,
            i + 1, currentTime, o, fault)

\* One firing of the interval timer, `elapsed` ms after the previous event.
\* An exception that leaves tick() is uncaught in the timer callback: the
\* process ends, and with it the loop.
Tick(elapsed, o, fault) ==
    /\ alive
    /\ gameLoop.timers # {}
    /\ lastTick.n < MaxTicks
    /\ now' = now + elapsed
    /\ LET w == TickRooms(World, 1, now + elapsed, o, fault)
       IN /\ roomStates' = w.roomStates
          /\ inputBuffers' = w.inputBuffers
          /\ alive' = (w.thrown = "none")
          /\ lastTick' = [n |-> lastTick.n + 1,
                          currentTime |-> now + elapsed,
                          outcome |-> o,
                          before |-> w.before,
                          marked |-> w.marked,
                          applied |-> w.applied,
                          broadcasts |-> w.broadcasts,
                          updated |-> w.updated,
                          events |-> w.events,
                          hops |-> w.hops,
                          thrown |-> w.thrown]
    /\ lastAction' = Did("tick", "none", "ok")
    /\ UNCHANGED <<rooms, gameLoop, inputsSent>>

----------------------------------------------------------------------------
(* Room handlers: create_room, join_room, start_game *)

\* create_room; generateRoomCode draws a code that no room has
CreateRoom(socketId, code) ==
    /\ alive
    /\ code \notin RoomCodesInUse
    /\ rooms' = Append(rooms, Room(code, socketId))
    /\ lastAction' = Did("create_room", socketId, "ok")
    /\ UNCHANGED <<now, roomStates, inputBuffers, gameLoop, alive, inputsSent, lastTick>>

\* join_room
JoinRoom(socketId, roomCode) ==
    /\ alive
    /\ IF ValidateJoinRoom(roomCode, socketId)
       THEN /\ rooms' = [rooms EXCEPT ![RoomIndex(roomCode)].players = Append(@, socketId)]
            /\ lastAction' = Did("join_room", socketId, "ok")
       ELSE /\ UNCHANGED rooms
            /\ lastAction' = Did("join_room", socketId, "rejected")
    /\ UNCHANGED <<now, roomStates, inputBuffers, gameLoop, alive, inputsSent, lastTick>>

\* removePlayerFromRoom: whether the room and the player were found, whether
\* the room was deleted, and the rooms it leaves.  The splice removes the
\* player; a leaving host hands the room to players[0]; an empty room is
\* deleted from the map.
RemovePlayerFromRoom(roomCode, socketId) ==
    LET i == RoomIndex(roomCode)
        Stays(id) == id # socketId
    IN IF i = 0 \/ socketId \notin Range(GetRoom(roomCode).players)
       THEN [found |-> FALSE, roomDeleted |-> FALSE, rooms |-> rooms]
       ELSE LET left == SelectSeq(rooms[i].players, Stays)
                wasHost == rooms[i].hostId = socketId
            IN IF left = <<>>
               THEN [found |-> TRUE, roomDeleted |-> TRUE,
                     rooms |-> [j \in 1..Len(rooms) - 1 |->
                                   IF j < i THEN rooms[j] ELSE rooms[j + 1]]]
               ELSE [found |-> TRUE, roomDeleted |-> FALSE,
                     rooms |-> [rooms EXCEPT
                                   ![i].players = left,
                                   ![i].hostId = IF wasHost THEN left[1] ELSE @]]

\* cleanupRoom(roomCode), called when the rooms are `remaining`: the game
\* state is deleted; the input buffers of the players that getRoom(roomCode)
\* lists are deleted, if there is such a room
CleanupRoom(states, buffers, remaining, roomCode) ==
    LET hits == {j \in 1..Len(remaining) : remaining[j].code = roomCode}
        listed == UNION {Range(remaining[j].players) : j \in hits}
    IN [roomStates |-> MapDelete(states, roomCode),
        inputBuffers |-> [p \in DOMAIN buffers \ listed |-> buffers[p]]]

\* The ids of the players of a room's match; none without a game state
MatchMembers(roomCode) ==
    IF roomCode \in DOMAIN roomStates
    THEN {roomStates[roomCode].players[k].id :
             k \in 1..Len(roomStates[roomCode].players)}
    ELSE {}

\* The observation of a leave_room or disconnect event: the room it was
\* routed to and the members of that room's match before the event
Gone(name, socketId, result, roomCode) ==
    [name |-> name, socket |-> socketId, result |-> result, errors |-> <<>>,
     roomCode |-> roomCode, members |-> MatchMembers(roomCode)]

\* leave_room: removePlayerFromRoom and the notifications; nothing else
LeaveRoom(socketId) ==
    /\ alive
    /\ LET roomCode == GetRoomCodeForSocket(socketId)
           result == RemovePlayerFromRoom(roomCode, socketId)
       IN IF roomCode = "null" \/ ~result.found
          THEN /\ UNCHANGED rooms
               /\ lastAction' = Gone("leave_room", socketId, "ignored", roomCode)
          ELSE /\ rooms' = result.rooms
               /\ lastAction' = Gone("leave_room", socketId,
                                     IF result.roomDeleted THEN "room_deleted"
                                     ELSE "left", roomCode)
    /\ UNCHANGED <<now, roomStates, inputBuffers, gameLoop, alive, inputsSent, lastTick>>

\* disconnect: removePlayerFromRoom; cleanupRoom when the room was deleted
Disconnect(socketId) ==
    /\ alive
    /\ LET roomCode == GetRoomCodeForSocket(socketId)
           result == RemovePlayerFromRoom(roomCode, socketId)
           cleaned == CleanupRoom(roomStates, inputBuffers, result.rooms, roomCode)
       IN IF roomCode = "null" \/ ~result.found
          THEN /\ UNCHANGED <<rooms, roomStates, inputBuffers>>
               /\ lastAction' = Gone("disconnect", socketId, "ignored", roomCode)
          ELSE IF result.roomDeleted
          THEN /\ rooms' = result.rooms
               /\ roomStates' = cleaned.roomStates
               /\ inputBuffers' = cleaned.inputBuffers
               /\ lastAction' = Gone("disconnect", socketId, "room_deleted", roomCode)
          ELSE /\ rooms' = result.rooms
               /\ UNCHANGED <<roomStates, inputBuffers>>
               /\ lastAction' = Gone("disconnect", socketId, "left", roomCode)
    /\ UNCHANGED <<now, gameLoop, alive, inputsSent, lastTick>>

\* start_game: startGame(roomCode), then initializeRoom(roomCode)
StartGame(socketId, draw) ==
    /\ alive
    /\ LET roomCode == GetRoomCodeForSocket(socketId)
       IN IF roomCode # "null" /\ ValidateStartGame(roomCode, socketId)
          THEN LET started == [rooms EXCEPT ![RoomIndex(roomCode)].status = "playing"]
               IN /\ rooms' = started
                  /\ roomStates' = MapSet(roomStates, roomCode,
                                          GameState(started[RoomIndex(roomCode)], draw))
                  /\ lastAction' = Did("start_game", socketId, "ok")
          ELSE /\ UNCHANGED <<rooms, roomStates>>
               /\ lastAction' = Did("start_game", socketId, "rejected")
    /\ UNCHANGED <<now, inputBuffers, gameLoop, alive, inputsSent, lastTick>>

----------------------------------------------------------------------------
(* Game handlers: player_input, use_portal, deploy_sink, activate_immunity,
   respawn_player *)

\* The observation of a player_input event
Sent(socketId, timestamp, result) ==
    [name |-> "player_input", socket |-> socketId, result |-> result,
     errors |-> <<>>, timestamp |-> timestamp]

\* player_input with inputData.timestamp = timestamp and, when `moving`, a
\* direction key down in inputData.keys
PlayerInput(socketId, moving, timestamp) ==
    /\ alive
    /\ inputsSent < MaxInputs
    /\ inputsSent' = inputsSent + 1
    /\ IF PlayingRoomOf(socketId) # "null"
       THEN /\ inputBuffers' = BufferPlayerInput(inputBuffers, socketId, moving, timestamp)
            /\ lastAction' = Sent(socketId, timestamp, "ok")
       ELSE /\ UNCHANGED inputBuffers
            /\ lastAction' = Sent(socketId, timestamp, "ignored")
    /\ UNCHANGED <<now, rooms, roomStates, gameLoop, alive, lastTick>>

\* The game state and player index a player action acts on, after the
\* handlers' checks "if (!gameState) return; if (!player) return"; k = 0
\* when any of them fails
ActionTarget(socketId) ==
    LET roomCode == PlayingRoomOf(socketId)
    IN IF roomCode # "null" /\ roomCode \in DOMAIN roomStates
       THEN [roomCode |-> roomCode, k |-> PlayerIndex(roomStates[roomCode], socketId)]
       ELSE [roomCode |-> roomCode, k |-> 0]

\* Faulty variant: use_portal does not look at the energy
CanUsePortal_Always(player) == TRUE

\* use_portal passes "if (player.energy < 1) reject"
CanUsePortal(player) == ~(player.energy < ENERGY_FULL)

\* The portal that use_portal pushes, player.speed * 1 ahead of the player
CreatedPortal(spot) ==
    [place |-> spot, timed |-> TRUE, life |-> Seconds(PORTAL_LIFE),
     isPlayerCreated |-> TRUE]

\* use_portal; `spot` is the place one second ahead of the player
UsePortal(socketId, spot) ==
    /\ alive
    /\ inputsSent < MaxInputs
    /\ inputsSent' = inputsSent + 1
    /\ LET t == ActionTarget(socketId)
       IN IF t.k = 0
          THEN /\ UNCHANGED roomStates
               /\ lastAction' = Did("use_portal", socketId, "ignored")
          ELSE IF ~CanUsePortal(roomStates[t.roomCode].players[t.k])
          THEN /\ UNCHANGED roomStates
               /\ lastAction' = Rejected("use_portal", socketId, "Energy not full")
          ELSE /\ roomStates' =
                     [roomStates EXCEPT
                        ![t.roomCode].portals = Append(@, CreatedPortal(spot)),
                        ![t.roomCode].players[t.k].energy = 0]
               /\ lastAction' = Did("use_portal", socketId, "ok")
    /\ UNCHANGED <<now, rooms, inputBuffers, gameLoop, alive, lastTick>>

\* Faulty variant: deploy_sink does not look at the inventory
CanDeploySink_Always(player) == TRUE

\* deploy_sink passes "if (player.sinkInventory <= 0) reject"
CanDeploySink(player) == player.sinkInventory > 0

\* deploy_sink
DeploySink(socketId) ==
    /\ alive
    /\ inputsSent < MaxInputs
    /\ inputsSent' = inputsSent + 1
    /\ LET t == ActionTarget(socketId)
       IN IF t.k = 0
          THEN /\ UNCHANGED roomStates
               /\ lastAction' = Did("deploy_sink", socketId, "ignored")
          ELSE IF ~CanDeploySink(roomStates[t.roomCode].players[t.k])
          THEN /\ UNCHANGED roomStates
               /\ lastAction' = Rejected("deploy_sink", socketId, "No sink traps")
          ELSE /\ roomStates' =
                     [roomStates EXCEPT
                        ![t.roomCode].players[t.k].sinkInventory = @ - 1,
                        ![t.roomCode].deployedSinks =
                            Append(@, [deployTime |-> roomStates[t.roomCode].gameTime])]
               /\ lastAction' = Did("deploy_sink", socketId, "ok")
    /\ UNCHANGED <<now, rooms, inputBuffers, gameLoop, alive, lastTick>>

\* activate_immunity passes "if (player.immunityInventory <= 0) reject" and
\* "if (player.immunityActive) reject"
CanActivateImmunity(player) ==
    player.immunityInventory > 0 /\ ~player.immunityActive

\* activate_immunity
ActivateImmunity(socketId) ==
    /\ alive
    /\ inputsSent < MaxInputs
    /\ inputsSent' = inputsSent + 1
    /\ LET t == ActionTarget(socketId)
       IN IF t.k = 0
          THEN /\ UNCHANGED roomStates
               /\ lastAction' = Did("activate_immunity", socketId, "ignored")
          ELSE IF ~CanActivateImmunity(roomStates[t.roomCode].players[t.k])
          THEN /\ UNCHANGED roomStates
               /\ lastAction' =
                     Rejected("activate_immunity", socketId,
                              IF roomStates[t.roomCode].players[t.k].immunityInventory <= 0
                              THEN "No immunity stored"
                              ELSE "Immunity already active")
          ELSE /\ roomStates' =
                     [roomStates EXCEPT
                        ![t.roomCode].players[t.k].immunityInventory = @ - 1,
                        ![t.roomCode].players[t.k].immunityActive = TRUE,
                        ![t.roomCode].players[t.k].immunityEndTime =
                            roomStates[t.roomCode].gameTime + Seconds(IMMUNITY_DURATION)]
               /\ lastAction' = Did("activate_immunity", socketId, "ok")
    /\ UNCHANGED <<now, rooms, inputBuffers, gameLoop, alive, lastTick>>

\* respawnPlayer's reset of the player's state, at a spawn tile
ResetPlayer(player) ==
    [player EXCEPT !.place = "elsewhere", !.trail = <<>>,
                   !.coinsCollected = 0, !.immunityInventory = 0,
                   !.sinkInventory = 0, !.energy = 0, !.immunityActive = FALSE,
                   !.immunityEndTime = 0, !.portalCooldown = 0,
                   !.speed = BASE_PLAYER_SPEED]

\* respawn_player: respawnPlayer(roomCode, socket.id), which also deletes
\* the player's input buffer
RespawnPlayer(socketId) ==
    /\ alive
    /\ inputsSent < MaxInputs
    /\ inputsSent' = inputsSent + 1
    /\ LET t == ActionTarget(socketId)
       IN IF t.k = 0
          THEN /\ UNCHANGED <<roomStates, inputBuffers>>
               /\ lastAction' =
                     Rejected("respawn_player", socketId,
                              IF GetRoomCodeForSocket(socketId) = "null"
                              THEN "Not in any room"
                              ELSE IF t.roomCode = "null" THEN "Game not active"
                              ELSE "Failed to respawn")
          ELSE /\ roomStates' = [roomStates EXCEPT
                                    ![t.roomCode].players[t.k] = ResetPlayer(@)]
               /\ inputBuffers' = MapDelete(inputBuffers, socketId)
               /\ lastAction' = Did("respawn_player", socketId, "ok")
    /\ UNCHANGED <<now, rooms, gameLoop, alive, lastTick>>

----------------------------------------------------------------------------
(* The environment of a tick: the outcomes of the random draws and of the
   distance tests, for each room *)

EmptyMap == [x \in {} |-> 0]

\* The observation of a direct call of a manager method: its arguments and
\* whether it returned null
Called(name, roomCode, playerId, result) ==
    [name |-> name, socket |-> playerId, result |-> result, errors |-> <<>>,
     roomCode |-> roomCode]

\* initializeRoom(roomCode): the room states it leaves and what it returns.
\* "if (!room) return null" precedes the construction and the set.
InitializeRoom(states, roomCode, draw) ==
    IF RoomIndex(roomCode) = 0
    THEN [value |-> "null", roomStates |-> states]
    ELSE [value |-> "gameState",
          roomStates |-> MapSet(states, roomCode, GameState(GetRoom(roomCode), draw))]

\* getGameState(roomCode): "this.roomStates.get(roomCode) || null"
GetGameState(states, roomCode) ==
    IF roomCode \in DOMAIN states THEN "gameState" ELSE "null"

\* Faulty variant: respawnPlayer clears the input buffer before its lookups
RespawnPlayerIn_ClearsFirst(states, buffers, roomCode, playerId) ==
    LET k == IF roomCode \in DOMAIN states
             THEN PlayerIndex(states[roomCode], playerId) ELSE 0
    IN IF k = 0
       THEN [value |-> "null", roomStates |-> states,
             inputBuffers |-> MapDelete(buffers, playerId)]
       ELSE [value |-> "player",
             roomStates |-> [states EXCEPT ![roomCode].players[k] = ResetPlayer(@)],
             inputBuffers |-> MapDelete(buffers, playerId)]

\* respawnPlayer(roomCode, playerId): the room states and input buffers it
\* leaves and what it returns.  Both "return null" precede the reset.
RespawnPlayerIn(states, buffers, roomCode, playerId) ==
    LET k == IF roomCode \in DOMAIN states
             THEN PlayerIndex(states[roomCode], playerId) ELSE 0
    IN IF k = 0
       THEN [value |-> "null", roomStates |-> states, inputBuffers |-> buffers]
       ELSE [value |-> "player",
             roomStates |-> [states EXCEPT ![roomCode].players[k] = ResetPlayer(@)],
             inputBuffers |-> MapDelete(buffers, playerId)]

\* A caller invokes qbitCityGameStateManager.initializeRoom(roomCode)
CallInitializeRoom(roomCode, draw) ==
    /\ alive
    /\ inputsSent < MaxInputs
    /\ inputsSent' = inputsSent + 1
    /\ LET r == InitializeRoom(roomStates, roomCode, draw)
       IN /\ roomStates' = r.roomStates
          /\ lastAction' = Called("initializeRoom", roomCode, "none", r.value)
    /\ UNCHANGED <<now, rooms, inputBuffers, gameLoop, alive, lastTick>>

\* A caller invokes qbitCityGameStateManager.getGameState(roomCode)
CallGetGameState(roomCode) ==
    /\ alive
    /\ inputsSent < MaxInputs
    /\ inputsSent' = inputsSent + 1
    /\ lastAction' = Called("getGameState", roomCode, "none",
                            GetGameState(roomStates, roomCode))
    /\ UNCHANGED <<now, rooms, roomStates, inputBuffers, gameLoop, alive, lastTick>>

\* A caller invokes qbitCityGameStateManager.respawnPlayer(roomCode, playerId)
CallRespawnPlayer(roomCode, playerId) ==
    /\ alive
    /\ inputsSent < MaxInputs
    /\ inputsSent' = inputsSent + 1
    /\ LET r == RespawnPlayerIn(roomStates, inputBuffers, roomCode, playerId)
       IN /\ roomStates' = r.roomStates
          /\ inputBuffers' = r.inputBuffers
          /\ lastAction' = Called("respawnPlayer", roomCode, playerId, r.value)
    /\ UNCHANGED <<now, rooms, gameLoop, alive, lastTick>>

\* All maps that take, at each key k of `sets`, a value of sets[k]
RECURSIVE Product(_)
Product(sets) ==
    IF DOMAIN sets = {} THEN {EmptyMap}
    ELSE LET k == CHOOSE x \in DOMAIN sets : TRUE
             rest == Product([x \in DOMAIN sets \ {k} |-> sets[x]])
         IN {MapSet(f, k, v) : f \in rest, v \in sets[k]}

NoContact ==
    [lava |-> FALSE, boat |-> FALSE, enemies |-> 0, coins |-> 0, pickups |-> 0,
     sinks |-> 0, sinksNearEnemy |-> 0, moveTo |-> "elsewhere", picks |-> <<>>]

\* The random first thresholds of the spawn timers, in ticks, at the low end
\* of 10 + random * 5, 20 + random * 10 and 25 + random * 10 seconds, and
\* three enemies at the low end of BASE_ENEMY_SPEED + random * 30
FirstDraw ==
    [nextCoinSpawnTime |-> Seconds(10),
     nextImmunityPickupSpawnTime |-> Seconds(20),
     nextSinkSpawnTime |-> Seconds(25),
     enemies |-> [i \in 1..INITIAL_ENEMIES |-> BASE_ENEMY_SPEED]]

\* An outcome in which every spawn attempt finds a tile and nothing touches
\* anything
QuietOutcome ==
    [coinFail |-> 0, numCoins |-> 3, nextCoinSpawnTime |-> Seconds(3),
     immunityFound |-> 0..3, nextImmunityPickupSpawnTime |-> Seconds(25),
     sinkFound |-> TRUE, nextSinkSpawnTime |-> Seconds(25),
     enemies |-> <<>>,
     contact |-> [s \in Sockets |-> NoContact]]

\* The speeds that spawnEnemy draws: BASE_ENEMY_SPEED + random * 30
EnemySpeeds == {BASE_ENEMY_SPEED, BASE_ENEMY_SPEED + ENEMY_SPEED_SPREAD - 5}

\* What a scenario lets the environment of a tick do: which players can be
\* in contact with anything, with how many coins, pickups, sink collectibles,
\* enemies and enemy-hit deployed sinks (sets of counts), whether a player
\* can be on a lava tile and under a boat, where a movement can lead and
\* what the portal loop can draw, how many coin spawn attempts can fail, the
\* batch sizes drawn, whether the pickup and sink-collectible spawn attempts
\* can fail, and what the two calls of spawnEnemy can return
Quiet ==
    [sockets |-> {}, coins |-> {0}, pickups |-> {0}, sinks |-> {0}, hits |-> {0},
     enemies |-> {0}, lava |-> {FALSE}, boat |-> {FALSE},
     moves |-> {"elsewhere"}, picks |-> {<<>>},
     coinFail |-> 0, numCoins |-> {3}, spawnFail |-> FALSE,
     enemySpawns |-> {<<BASE_ENEMY_SPEED, BASE_ENEMY_SPEED>>}]

\* The player with id s has an unprocessed input with a direction key down
HasMove(s) ==
    \E i \in 1..Len(MapGet(inputBuffers, s, <<>>)) :
        inputBuffers[s][i].moving /\ ~inputBuffers[s][i].processed

\* What the player with id s can be in contact with in this tick; only what
\* can exist in the room is enumerated.  The boat test is made only on a
\* lava tile; the lava tiles are the map's rim, and the coins, pickups and
\* sink collectibles lie at centres of road tiles, out of reach from it.
ContactsOf(gameState, s, env) ==
    LET unlocked == gameState.gameTime + 1 >= Seconds(COLLECTIBLES_START_TIME)
        coins == IF \/ Uncollected(gameState.coins) > 0
                    \/ ~gameState.coinsInitialized
                    \/ gameState.coinSpawnTimer + 1 >= gameState.nextCoinSpawnTime
                 THEN env.coins ELSE {0}
        pickups == IF UncollectedPickups(gameState.immunityPickups) > 0 \/ unlocked
                   THEN env.pickups ELSE {0}
        sinks == IF Uncollected(gameState.sinkCollectibles) > 0 \/ unlocked
                 THEN env.sinks ELSE {0}
        hits == IF gameState.deployedSinks # <<>> THEN env.hits ELSE {0}
        enemies == IF gameState.enemies # <<>> THEN env.enemies ELSE {0}
        moves == IF HasMove(s) THEN env.moves
                 ELSE {gameState.players[PlayerIndex(gameState, s)].place}
        all == [lava : env.lava, boat : env.boat, enemies : enemies,
                coins : coins, pickups : pickups, sinks : sinks,
                sinksNearEnemy : hits, moveTo : moves, picks : env.picks]
    IN IF PlayerIndex(gameState, s) = 0 \/ s \notin env.sockets THEN {NoContact}
       ELSE {c \in all :
                /\ c.boat => c.lava
                /\ c.lava => c.coins = 0 /\ c.pickups = 0 /\ c.sinks = 0}

\* The outcomes of one room's update.  Draws that the update will not make
\* are fixed, and so are the next thresholds of the spawn timers, which are
\* at least 3 s away.
RoomOutcomes(roomCode, env) ==
    IF roomCode \notin DOMAIN roomStates THEN {QuietOutcome}
    ELSE
      LET gameState == roomStates[roomCode]
          batch == gameState.coinSpawnTimer + 1 >= gameState.nextCoinSpawnTime
          spawns == batch \/ ~gameState.coinsInitialized
          unlocked == gameState.gameTime + 1 >= Seconds(COLLECTIBLES_START_TIME)
          first == unlocked /\ ~gameState.collectiblesInitialized
          topUp == unlocked /\ gameState.immunityPickupSpawnTimer + 1
                                  >= gameState.nextImmunityPickupSpawnTime
          sinkDue == unlocked /\ gameState.sinkSpawnTimer + 1 >= gameState.nextSinkSpawnTime
          enemyDue == gameState.enemySpawnTimer + 1 >= Seconds(ENEMY_SPAWN_INTERVAL)
      IN [coinFail : IF spawns THEN 0..env.coinFail ELSE {0},
          numCoins : IF batch THEN env.numCoins ELSE {3},
          nextCoinSpawnTime : {Seconds(3)},
          immunityFound : IF (first \/ topUp) /\ env.spawnFail
                          THEN {0..3, 1..3} ELSE {0..3},
          nextImmunityPickupSpawnTime : {Seconds(25)},
          sinkFound : IF (first \/ sinkDue) /\ env.spawnFail THEN BOOLEAN ELSE {TRUE},
          nextSinkSpawnTime : {Seconds(25)},
          enemies : IF enemyDue THEN env.enemySpawns ELSE {<<>>},
          contact : Product([s \in Sockets |-> ContactsOf(gameState, s, env)])]

\* The outcomes of one tick: one for each room code
TickOutcomes(env) == Product([c \in RoomCodes |-> RoomOutcomes(c, env)])

----------------------------------------------------------------------------
(* The tile map: generateMap and seededRandom.  The grid is MapSide x       *)
(* MapSide tiles (the code's MAP_WIDTH = MAP_HEIGHT), indexed from 0 as     *)
(* tiles[y][x].  A draw of the generator is kept as its integer `value`;    *)
(* the code's rng() is value / 233280, so "rng() < 0.05" is                 *)
(* value * 100 < 5 * 233280.                                                *)

ROAD == 0
SIDEWALK == 1
GRASS == 2
WATER == 3
LAVA == 4

\* seededRandom's step: value = (value * 9301 + 49297) % 233280.  The
\* product is taken in two parts, 9301 = 93 * 100 + 1, which gives the same
\* residue and stays within 32 bits.
NextRandom(value) ==
    (((value * (RNG_MULTIPLIER \div 100)) % RNG_MODULUS) * 100
        + value * (RNG_MULTIPLIER % 100) + RNG_INCREMENT) % RNG_MODULUS

\* "rand < percent / 100" and "rand > percent / 100" for rand = value / 233280
Below(value, percent) == value * 100 < percent * RNG_MODULUS

Above(value, percent) == value * 100 > percent * RNG_MODULUS

\* The grid before generation: every tile a sidewalk
AllSidewalk == [y \in 0..MapSide - 1 |-> [x \in 0..MapSide - 1 |-> SIDEWALK]]

RoadCell(x, y) == y % BLOCK_SIZE = 0 \/ x % BLOCK_SIZE = 0

\* Faulty variant: the water blot converts every cell of its 3x3 block
Blot_OverRoads(tiles, x, y) ==
    [ly \in DOMAIN tiles |-> [lx \in DOMAIN tiles[ly] |->
        IF ly \in y - 1..y + 1 /\ lx \in x - 1..x + 1
        THEN WATER ELSE tiles[ly][lx]]]

\* The 3x3 water blot centred on (x, y): the cells inside the grid that are
\* not road become water
Blot(tiles, x, y) ==
    [ly \in DOMAIN tiles |-> [lx \in DOMAIN tiles[ly] |->
        IF ly \in y - 1..y + 1 /\ lx \in x - 1..x + 1 /\ tiles[ly][lx] # ROAD
        THEN WATER ELSE tiles[ly][lx]]]

\* The body of the road loop for the cell (x, y); st is the grid and the
\* generator's value
GenerateCell(st, x, y) ==
    IF RoadCell(x, y) THEN [st EXCEPT !.tiles[y][x] = ROAD]
    ELSE LET rand == NextRandom(st.value)
         IN [tiles |-> IF Below(rand, WATER_PERCENT) THEN Blot(st.tiles, x, y)
                       ELSE IF Below(rand, GRASS_PERCENT)
                       THEN [st.tiles EXCEPT ![y][x] = GRASS]
                       ELSE st.tiles,
             value |-> rand]

\* "for (x = 0; x < MAP_WIDTH; x++)" of the road loop, from x on
RECURSIVE GenerateRow(_, _, _)
GenerateRow(st, x, y) ==
    IF x \notin DOMAIN st.tiles[y] THEN st
    ELSE GenerateRow(GenerateCell(st, x, y), x + 1, y)

\* "for (y = 0; y < MAP_HEIGHT; y++)" of the road loop, from y on
RECURSIVE GenerateRows(_, _)
GenerateRows(st, y) ==
    IF y \notin DOMAIN st.tiles THEN st
    ELSE GenerateRows(GenerateRow(st, 0, y), y + 1)

\* "Set perimeter to lava"
SetPerimeter(tiles) ==
    [y \in DOMAIN tiles |-> [x \in DOMAIN tiles[y] |->
        IF x = 0 \/ x = MapSide - 1 \/ y = 0 \/ y = MapSide - 1
        THEN LAVA ELSE tiles[y][x]]]

\* The body of the building loop for the cell (x, y); st holds the grid,
\* the lists and the generator's value.  A building keeps its type and the
\* draw that gives its height, a tree the three draws that give its offsets
\* and radius.
DecorateCell(st, x, y) ==
    LET tile == st.tiles[y][x]
        d1 == NextRandom(st.value)
        d2 == NextRandom(d1)
        d3 == NextRandom(d2)
        d4 == NextRandom(d3)
    IN IF tile = SIDEWALK
       THEN IF Above(d1, SHOP_PERCENT) \/ Above(d1, CAFE_PERCENT)
            THEN [st EXCEPT
                    !.buildings = Append(@, [gridX |-> x, gridY |-> y,
                                             type |-> IF Above(d1, SHOP_PERCENT)
                                                      THEN 1 ELSE 2,
                                             height |-> d3]),
                    !.value = d3]
            ELSE [st EXCEPT
                    !.buildings = Append(@, [gridX |-> x, gridY |-> y,
                                             type |-> 0, height |-> d2]),
                    !.value = d2]
       ELSE IF tile = GRASS
       THEN IF Above(d1, TREE_PERCENT)
            THEN [st EXCEPT
                    !.trees = Append(@, [gridX |-> x, gridY |-> y,
                                         dx |-> d2, dy |-> d3, r |-> d4]),
                    !.value = d4]
            ELSE [st EXCEPT !.value = d1]
       ELSE st

RECURSIVE DecorateRow(_, _, _)
DecorateRow(st, x, y) ==
    IF x \notin DOMAIN st.tiles[y] THEN st
    ELSE DecorateRow(DecorateCell(st, x, y), x + 1, y)

RECURSIVE DecorateRows(_, _)
DecorateRows(st, y) ==
    IF y \notin DOMAIN st.tiles THEN st
    ELSE DecorateRows(DecorateRow(st, 0, y), y + 1)

\* generateMap(seed), for a generator whose value is `start` when the call
\* begins
GenerateMapFrom(start) ==
    LET roads == GenerateRows([tiles |-> AllSidewalk, value |-> start], 0)
        done == DecorateRows([tiles |-> SetPerimeter(roads.tiles),
                              buildings |-> <<>>, trees |-> <<>>,
                              value |-> roads.value], 0)
    IN [tiles |-> done.tiles, buildings |-> done.buildings,
        trees |-> done.trees, value |-> done.value]

\* Faulty variant: one generator is shared by all calls and keeps its value
SeededRandom_Shared(seed, left) == left

\* seededRandom(seed): a new generator whose value is the seed; `left` is
\* the value that the previous call's generator ended with
SeededRandom(seed, left) == seed

\* The observation of a call of generateMap: the seed, the map returned,
\* and the value its generator ended with
Generated(seed, map) ==
    [name |-> "generateMap", socket |-> "none", result |-> "ok", errors |-> <<>>,
     seed |-> seed, tiles |-> map.tiles, buildings |-> map.buildings,
     trees |-> map.trees, value |-> map.value]

\* A caller invokes generateMap(seed)
CallGenerateMap(seed) ==
    /\ alive
    /\ inputsSent < MaxCalls
    /\ inputsSent' = inputsSent + 1
    /\ lastAction' =
          Generated(seed,
                    GenerateMapFrom(
                        SeededRandom(seed, IF lastAction.name = "generateMap"
                                           THEN lastAction.value ELSE 0)))
    /\ UNCHANGED <<now, rooms, roomStates, inputBuffers, gameLoop, alive, lastTick>>

----------------------------------------------------------------------------
(* Positions and collision.  A coordinate is a whole number of 1/Unit       *)
(* pixels; a position is a record [x, y] of the centre of a 24 x 24 box.    *)

TileSpan == TILE_SIZE * Unit

\* The map of the city that the walks below take place in
CityTiles == GenerateMapFrom(SeededRandom(MapSeed, 0)).tiles

\* "x * TILE_SIZE + TILE_SIZE / 2"
TileCentre(gx, gy) ==
    [x |-> gx * TileSpan + TileSpan \div 2, y |-> gy * TileSpan + TileSpan \div 2]

\* The tiles "Math.floor(Math.random() * (MAP_WIDTH - 2)) + 1" can draw
InteriorTiles == (1..MapSide - 2) \X (1..MapSide - 2)

\* "solid = tile === 1 || tile === 3; if (tile === 4 && !isPlayer) solid = true"
Solid(tile, isPlayer) ==
    tile = SIDEWALK \/ tile = WATER \/ (tile = LAVA /\ ~isPlayer)

\* The box centred on (x, y) and the tile (gx, gy) overlap
BoxOnTile(x, y, width, height, gx, gy) ==
    LET l == x - width \div 2
        r == x + width \div 2
        t == y - height \div 2
        b == y + height \div 2
        bx == gx * TileSpan
        by == gy * TileSpan
    IN l < bx + TileSpan /\ r > bx /\ t < by + TileSpan /\ b > by

\* checkCollision(x, y, width, height, map, isPlayer): the nine tiles around
\* the tile of the centre are tested, those outside the grid skipped
CheckCollision(x, y, width, height, tiles, isPlayer) ==
    LET gridX == x \div TileSpan
        gridY == y \div TileSpan
    IN \E gy \in gridY - 1..gridY + 1, gx \in gridX - 1..gridX + 1 :
          /\ gy \in DOMAIN tiles
          /\ gx \in DOMAIN tiles[gy]
          /\ Solid(tiles[gy][gx], isPlayer)
          /\ BoxOnTile(x, y, width, height, gx, gy)

\* The whole number of units nearest below d / sqrt(2): the length of each
\* component of a diagonal move of length d
Diagonal(d) == CHOOSE c \in 0..d : 2 * c * c <= d * d /\ 2 * (c + 1) * (c + 1) > d * d

\* The distance covered in one tick at `speed` pixels per second
StepOf(speed) == (speed * Unit) \div tickRate

\* The movement part of applyInputToPlayer for the direction (dx, dy) of the
\* pressed keys, each of -1, 0, 1
MovePlayer(pos, dx, dy, speed, tiles) ==
    LET size == ENTITY_SIZE * Unit
        step == IF dx # 0 /\ dy # 0 THEN Diagonal(StepOf(speed)) ELSE StepOf(speed)
        newX == pos.x + dx * step
        newY == pos.y + dy * step
    IN IF CheckCollision(newX, pos.y, size, size, tiles, TRUE)
       THEN IF ~CheckCollision(pos.x, newY, size, size, tiles, TRUE)
            THEN [pos EXCEPT !.y = newY] ELSE pos
       ELSE IF CheckCollision(pos.x, newY, size, size, tiles, TRUE)
       THEN [pos EXCEPT !.x = newX]
       ELSE [x |-> newX, y |-> newY]

\* The observation of a placement or a move of a player or an enemy: where
\* it was and where it is
Moved(name, kind, before, move, after) ==
    [name |-> name, socket |-> "none", result |-> "ok", errors |-> <<>>,
     kind |-> kind, before |-> before, move |-> move, after |-> after]

\* The position initializePlayers gives a player, for the draws of its
\* attempts: the centre of the first road tile drawn, or (0, 0), the initial
\* value of spawnX and spawnY, when no draw of the budget is a road tile
SpawnPosition(tiles, draws) ==
    LET road == {i \in 1..Len(draws) : tiles[draws[i][2]][draws[i][1]] = ROAD}
    IN IF road = {} THEN [x |-> 0, y |-> 0]
       ELSE LET tile == draws[CHOOSE i \in road : \A j \in road : i <= j]
            IN TileCentre(tile[1], tile[2])

\* A call of initializePlayers that is about to place a player
Spawning(draws) ==
    [name |-> "spawning", socket |-> "none", result |-> "ok", errors |-> <<>>,
     draws |-> draws]

\* initializePlayers places the player
PlaceSpawned ==
    /\ alive
    /\ lastAction.name = "spawning"
    /\ inputsSent' = inputsSent + 1
    /\ lastAction' = [lastAction EXCEPT !.name = "initializePlayers"] @@
                         [at |-> SpawnPosition(CityTiles, lastAction.draws)]
    /\ UNCHANGED <<now, rooms, roomStates, inputBuffers, gameLoop, alive, lastTick>>

\* initializePlayers places a player of a walk, its attempts taken as one
\* draw: on the centre of a road tile drawn among the tiles inside the
\* perimeter, or at (0, 0) when the draws found none
PlacePlayer(tile) ==
    /\ alive
    /\ inputsSent < MaxMoves
    /\ inputsSent' = inputsSent + 1
    /\ LET at == SpawnPosition(CityTiles, <<tile>>)
       IN lastAction' = Moved("initializePlayers", "player", at, <<0, 0>>, at)
    /\ UNCHANGED <<now, rooms, roomStates, inputBuffers, gameLoop, alive, lastTick>>

\* A tick applies the latest input of the player, whose keys give (dx, dy)
MovePlayerStep(dx, dy) ==
    /\ alive
    /\ inputsSent < MaxMoves
    /\ lastAction.name \in {"initializePlayers", "applyInputToPlayer"}
    /\ inputsSent' = inputsSent + 1
    /\ lastAction' = Moved("applyInputToPlayer", "player", lastAction.after,
                           <<dx, dy>>,
                           MovePlayer(lastAction.after, dx, dy,
                                      BASE_PLAYER_SPEED, CityTiles))
    /\ UNCHANGED <<now, rooms, roomStates, inputBuffers, gameLoop, alive, lastTick>>

\* Faulty variant: the Y move is tested from the position before the X move
MoveEnemy_TestsOldX(pos, moveX, moveY, tiles) ==
    LET size == ENTITY_SIZE * Unit
    IN [x |-> IF ~CheckCollision(pos.x + moveX, pos.y, size, size, tiles, FALSE)
              THEN pos.x + moveX ELSE pos.x,
        y |-> IF ~CheckCollision(pos.x, pos.y + moveY, size, size, tiles, FALSE)
              THEN pos.y + moveY ELSE pos.y]

\* "Apply movement with collision" of updateEnemies: the X move is tested
\* and applied, then the Y move is tested from the new x
MoveEnemy(pos, moveX, moveY, tiles) ==
    LET size == ENTITY_SIZE * Unit
        x == IF ~CheckCollision(pos.x + moveX, pos.y, size, size, tiles, FALSE)
             THEN pos.x + moveX ELSE pos.x
    IN [x |-> x,
        y |-> IF ~CheckCollision(x, pos.y + moveY, size, size, tiles, FALSE)
              THEN pos.y + moveY ELSE pos.y]

\* The moves of an enemy in one tick that the walks draw from: none (the
\* enemy is on the player), or a move towards the player or along the flank
\* direction, of a length between the steps of the slowest and the fastest
\* enemy: along an axis or along a diagonal
EnemyMoves ==
    LET slow == StepOf(BASE_ENEMY_SPEED)
        fast == StepOf(BASE_ENEMY_SPEED + ENEMY_SPEED_SPREAD)
        offsets == {0, Diagonal(fast), slow}
    IN {<<0, 0>>} \cup
       {<<sx * mx, sy * my>> : sx, sy \in {-1, 1},
                               <<mx, my>> \in {m \in offsets \X offsets :
                                   /\ m[1] * m[1] + m[2] * m[2] >= slow * slow
                                   /\ m[1] * m[1] + m[2] * m[2] <= fast * fast}}

\* spawnEnemy returns an enemy, for a new enemy or for the new position of
\* one that met an immune player or a sink: on the centre of a road tile
\* drawn among the tiles inside the perimeter
PlaceEnemy(tile) ==
    /\ alive
    /\ inputsSent < MaxMoves
    /\ CityTiles[tile[2]][tile[1]] = ROAD
    /\ inputsSent' = inputsSent + 1
    /\ LET at == TileCentre(tile[1], tile[2])
       IN lastAction' = Moved("spawnEnemy", "enemy", at, <<0, 0>>, at)
    /\ UNCHANGED <<now, rooms, roomStates, inputBuffers, gameLoop, alive, lastTick>>

\* A tick moves the enemy by (moveX, moveY)
MoveEnemyStep(move) ==
    /\ alive
    /\ inputsSent < MaxMoves
    /\ lastAction.name \in {"spawnEnemy", "updateEnemies"}
    /\ inputsSent' = inputsSent + 1
    /\ lastAction' = Moved("updateEnemies", "enemy", lastAction.after, move,
                           MoveEnemy(lastAction.after, move[1], move[2], CityTiles))
    /\ UNCHANGED <<now, rooms, roomStates, inputBuffers, gameLoop, alive, lastTick>>

\* The square of the distance between two positions
Distance2(a, b) == (a.x - b.x) * (a.x - b.x) + (a.y - b.y) * (a.y - b.y)

\* spawnEnemy(map, avoidX, avoidY, minDist), for the draws of its attempts:
\* the centre of the first road tile drawn that is farther than minDist from
\* the point to avoid, or <<>> for null when no draw of the budget is
RECURSIVE SpawnEnemy(_, _, _, _)
SpawnEnemy(tiles, avoid, minDist, draws) ==
    IF draws = <<>> THEN <<>>
    ELSE LET tile == Head(draws)
             candidate == TileCentre(tile[1], tile[2])
         IN IF /\ tiles[tile[2]][tile[1]] = ROAD
               /\ Distance2(candidate, avoid) > (minDist * Unit) * (minDist * Unit)
            THEN candidate
            ELSE SpawnEnemy(tiles, avoid, minDist, Tail(draws))

\* "dist < (player.width / 2 + enemy.width / 2)"
InContact(player, enemy) ==
    Distance2(player, enemy) < (ENTITY_SIZE * Unit) * (ENTITY_SIZE * Unit)

\* The enemy loop of checkCollisions for one player and one enemy: whether
\* a death is signalled, and where the enemy is afterwards
EnemyContact(tiles, player, immunityActive, enemy, draws) ==
    IF ~InContact(player, enemy) THEN [death |-> FALSE, enemy |-> enemy]
    ELSE IF ~immunityActive THEN [death |-> TRUE, enemy |-> enemy]
    ELSE LET newPos == SpawnEnemy(tiles, player, PUSH_AWAY_DISTANCE, draws)
         IN [death |-> FALSE, enemy |-> IF newPos = <<>> THEN enemy ELSE newPos]

\* A player and an enemy that are about to be tested for contact
Meeting(player, immunityActive, enemy, draws) ==
    [name |-> "meeting", socket |-> "none", result |-> "ok", errors |-> <<>>,
     player |-> player, immunityActive |-> immunityActive, enemy |-> enemy,
     draws |-> draws]

\* The interaction pass tests the player and the enemy
TestContact ==
    /\ alive
    /\ lastAction.name = "meeting"
    /\ inputsSent' = inputsSent + 1
    /\ LET met == EnemyContact(CityTiles, lastAction.player, lastAction.immunityActive,
                               lastAction.enemy, lastAction.draws)
       IN lastAction' = [lastAction EXCEPT !.name = "checkCollisions"] @@
                            [death |-> met.death, after |-> met.enemy]
    /\ UNCHANGED <<now, rooms, roomStates, inputBuffers, gameLoop, alive, lastTick>>

\* Directions are vectors whose length is DirScale, so that a unit vector
\* with rational components is written in integers; a speed times deltaTime
\* multiplies every displacement of a tick alike and is left out
DirScale == 65

NoDirection == [x |-> 0, y |-> 0]

\* "stuckTime > 0.5" and "flankTimer = 1.0", in ticks
STUCK_LIMIT == Seconds(1) \div 2
FLANK_TIME == Seconds(1)

\* The fields of an enemy that updateEnemies keeps, as spawnEnemy sets them
SpawnedFlankState == [stuckTime |-> 0, flankTimer |-> 0, flankDir |-> NoDirection]

\* "{ x: -edyNorm, y: edxNorm }" when Math.random() < 0.5, else
\* "{ x: edyNorm, y: -edxNorm }"
Perpendicular(line, left) ==
    IF left THEN [x |-> -line.y, y |-> line.x] ELSE [x |-> line.y, y |-> -line.x]

\* Faulty variant: the stuck time is kept when the flank timer runs out
SelectMode_KeepsStuckTime(enemy, line) ==
    IF enemy.flankTimer > 0
    THEN [enemy |-> [enemy EXCEPT !.flankTimer = @ - 1], move |-> enemy.flankDir]
    ELSE [enemy |-> enemy, move |-> line]

\* updateEnemies, the choice of the move: along the flank direction while
\* the flank timer is positive, else along the line to the nearest player
\* (no move when the enemy is on the player, "dist > 0")
SelectMode(enemy, line) ==
    IF enemy.flankTimer > 0
    THEN LET timer == enemy.flankTimer - 1
         IN [enemy |-> [enemy EXCEPT !.flankTimer = timer,
                                     !.stuckTime = IF timer <= 0 THEN 0 ELSE @],
             move |-> enemy.flankDir]
    ELSE [enemy |-> enemy, move |-> line]

\* "Apply movement with collision": each axis of the move is applied
\* unless checkCollision refuses it
ActualMove(move, xBlocked, yBlocked) ==
    [x |-> IF xBlocked THEN 0 ELSE move.x, y |-> IF yBlocked THEN 0 ELSE move.y]

\* "actual < intended * 0.5", both squared
BelowHalf(actual) ==
    4 * (actual.x * actual.x + actual.y * actual.y) < DirScale * DirScale

\* Faulty variant: the flank starts when the stuck time reaches the limit
StuckDetection_AtLimit(enemy, actual, after, left) ==
    IF enemy.flankTimer > 0 THEN enemy
    ELSE IF BelowHalf(actual)
         THEN LET stuck == [enemy EXCEPT !.stuckTime = @ + 1]
              IN IF stuck.stuckTime >= STUCK_LIMIT
                 THEN [stuck EXCEPT !.flankTimer = FLANK_TIME,
                                    !.flankDir = IF after = NoDirection THEN @
                                                 ELSE Perpendicular(after, left)]
                 ELSE stuck
         ELSE [enemy EXCEPT !.stuckTime = IF @ > 0 THEN @ - 1 ELSE 0]

\* updateEnemies, stuck detection: `after` is the line to the nearest player
\* from where the enemy now is, NoDirection when it is on the player
StuckDetection(enemy, actual, after, left) ==
    IF enemy.flankTimer > 0 THEN enemy
    ELSE IF BelowHalf(actual)
         THEN LET stuck == [enemy EXCEPT !.stuckTime = @ + 1]
              IN IF stuck.stuckTime > STUCK_LIMIT
                 THEN [stuck EXCEPT !.flankTimer = FLANK_TIME,
                                    !.flankDir = IF after = NoDirection THEN @
                                                 ELSE Perpendicular(after, left)]
                 ELSE stuck
         ELSE [enemy EXCEPT !.stuckTime = IF @ > 0 THEN @ - 1 ELSE 0]

\* What one pass of updateEnemies did to one enemy.  `run` counts the ticks
\* in a row, up to this one, that the enemy started in pursuit and ended
\* below half its intended displacement; `everBlocked` tells whether any tick
\* so far ended below half
Updated(name, enemy, line, move, actual, after, run, everBlocked) ==
    [name |-> name, socket |-> "none", result |-> "ok", errors |-> <<>>,
     enemy |-> enemy, line |-> line, move |-> move, actual |-> actual,
     after |-> after, run |-> run, everBlocked |-> everBlocked]

\* updateEnemies for one enemy in one tick
UpdateEnemy(line, xBlocked, yBlocked, after, left) ==
    /\ alive
    /\ lastAction.name \in {"spawnEnemy", "updateEnemies"}
    /\ LET before == lastAction.enemy
           mode == SelectMode(before, line)
           actual == ActualMove(mode.move, xBlocked, yBlocked)
           here == IF actual = NoDirection THEN line ELSE after
           blocked == BelowHalf(actual)
       IN lastAction' =
              Updated("updateEnemies",
                      StuckDetection(mode.enemy, actual, here, left),
                      line, mode.move, actual, here,
                      IF blocked /\ before.flankTimer <= 0 THEN lastAction.run + 1 ELSE 0,
                      lastAction.everBlocked \/ blocked)
    /\ UNCHANGED <<now, rooms, roomStates, inputBuffers, gameLoop, alive,
                   inputsSent, lastTick>>

\* Faulty variant: every road tile counts as safe
SafeFromEnemies_Always(at, enemies) == TRUE

\* "dist < 500" for no enemy, with dist = Math.hypot(...) compared by squares
SafeFromEnemies(at, enemies) ==
    \A enemy \in enemies :
        (at.x - enemy.x) * (at.x - enemy.x) + (at.y - enemy.y) * (at.y - enemy.y)
            >= (RESPAWN_SAFE_DISTANCE * Unit) * (RESPAWN_SAFE_DISTANCE * Unit)

\* The first draw of the attempts loop of respawnPlayer that is a road tile
\* safe from the enemies, or <<>> when no draw of the budget is
RECURSIVE FirstSafeDraw(_, _, _)
FirstSafeDraw(tiles, enemies, draws) ==
    IF draws = <<>> THEN <<>>
    ELSE LET tile == Head(draws)
         IN IF /\ tiles[tile[2]][tile[1]] = ROAD
               /\ SafeFromEnemies(TileCentre(tile[1], tile[2]), enemies)
            THEN tile
            ELSE FirstSafeDraw(tiles, enemies, Tail(draws))

\* The fallback scan of respawnPlayer: rows from 1, in each row the columns
\* from 1, the first road tile; <<>> when the scan finds none
FirstRoadTile(tiles) ==
    LET road == {tile \in InteriorTiles : tiles[tile[2]][tile[1]] = ROAD}
    IN IF road = {} THEN <<>>
       ELSE CHOOSE tile \in road :
               \A other \in road :
                   \/ tile[2] < other[2]
                   \/ (tile[2] = other[2] /\ tile[1] <= other[1])

\* The position respawnPlayer gives the player, for the draws of its
\* attempts: found tells whether an attempt succeeded
RespawnPosition(tiles, enemies, draws) ==
    LET drawn == FirstSafeDraw(tiles, enemies, draws)
        tile == IF drawn # <<>> THEN drawn ELSE FirstRoadTile(tiles)
    IN [found |-> drawn # <<>>,
        at |-> IF tile = <<>> THEN [x |-> 0, y |-> 0]
               ELSE TileCentre(tile[1], tile[2])]

\* The tiles that the respawn scenario draws from: the corners, the middle
\* of the sides and a crossing of the part inside the perimeter
DrawTiles == {1, BLOCK_SIZE, MapSide - 2} \X {1, BLOCK_SIZE, MapSide - 2}

\* The enemies of the respawn scenario: any of three, at centres of road
\* tiles, one of them one move off its tile centre
EnemySets ==
    SUBSET {TileCentre(BLOCK_SIZE, 1),
            MoveEnemy(TileCentre(BLOCK_SIZE, BLOCK_SIZE), StepOf(BASE_ENEMY_SPEED), 0,
                      CityTiles),
            TileCentre(MapSide - 2, BLOCK_SIZE)}

\* A call of respawnPlayer that is about to place the player
Respawning(enemies, draws) ==
    [name |-> "respawning", socket |-> "none", result |-> "ok", errors |-> <<>>,
     enemies |-> enemies, draws |-> draws]

\* respawnPlayer places the player
PlaceRespawned ==
    /\ alive
    /\ lastAction.name = "respawning"
    /\ inputsSent' = inputsSent + 1
    /\ LET placed == RespawnPosition(CityTiles, lastAction.enemies, lastAction.draws)
       IN lastAction' = [lastAction EXCEPT !.name = "respawnPlayer"] @@
                            [found |-> placed.found, at |-> placed.at]
    /\ UNCHANGED <<now, rooms, roomStates, inputBuffers, gameLoop, alive, lastTick>>

\* A call of start()
Start ==
    /\ alive
    /\ gameLoop.isRunning \/ gameLoop.made < MaxStarts
    /\ gameLoop' = StartLoop(gameLoop)
    /\ lastAction' = Did("start", "none", IF gameLoop.isRunning THEN "running" ELSE "ok")
    /\ UNCHANGED <<now, rooms, roomStates, inputBuffers, alive, inputsSent, lastTick>>

\* A call of stop()
Stop ==
    /\ alive
    /\ gameLoop' = StopLoop(gameLoop)
    /\ lastAction' = Did("stop", "none", "ok")
    /\ UNCHANGED <<now, rooms, roomStates, inputBuffers, alive, inputsSent, lastTick>>

----------------------------------------------------------------------------
(* Initial states *)

StartTime == 100 * MAX_INPUT_LAG

NoTick ==
    [n |-> 0, currentTime |-> 0, outcome |-> EmptyMap,
     before |-> [s \in Sockets |-> <<>>],
     marked |-> [s \in Sockets |-> <<>>],
     applied |-> [s \in Sockets |-> <<>>],
     broadcasts |-> [c \in RoomCodes |-> <<>>],
     updated |-> {}, events |-> <<>>, hops |-> <<>>, thrown |-> "none"]

\* The state after process start: no room, no game state, the loop started
Init ==
    /\ now = StartTime
    /\ rooms = <<>>
    /\ roomStates = EmptyMap
    /\ inputBuffers = EmptyMap
    /\ gameLoop = Started
    /\ alive = TRUE
    /\ inputsSent = 0
    /\ lastTick = NoTick
    /\ lastAction = Did("start", "none", "ok")

\* Room R1 with p1 (host) and p2, as start_game leaves it
StartedRoom ==
    [Room("R1", "p1") EXCEPT !.players = <<"p1", "p2">>, !.status = "playing"]

\* A burst of n inputs stamped t, none consumed yet
Burst(n, t) == [i \in 1..n |-> Input(TRUE, t)]

\* Input scenario: the match in R1 has just started and nothing has been
\* sent yet
InitInput ==
    /\ now = StartTime
    /\ rooms = <<StartedRoom>>
    /\ roomStates = MapSet(EmptyMap, "R1", GameState(StartedRoom, FirstDraw))
    /\ inputBuffers = EmptyMap
    /\ gameLoop = Started
    /\ alive = TRUE
    /\ inputsSent = 0
    /\ lastTick = NoTick
    /\ lastAction = Did("start_game", "p1", "ok")

\* Full-buffer scenario: as InitInput, after p1 has sent a burst that leaves
\* its buffer one below the limit
InitBurst ==
    /\ now = StartTime
    /\ rooms = <<StartedRoom>>
    /\ roomStates = MapSet(EmptyMap, "R1", GameState(StartedRoom, FirstDraw))
    /\ inputBuffers = MapSet(EmptyMap, "p1", Burst(INPUT_BUFFER_SIZE - 1, StartTime))
    /\ gameLoop = Started
    /\ alive = TRUE
    /\ inputsSent = 0
    /\ lastTick = NoTick
    /\ lastAction = Sent("p1", StartTime, "ok")

\* The timestamps a client sends, relative to the server's clock: late by a
\* tick, current, ahead by two ticks
InputTimestamps == {now - TICK_MS, now, now + 2 * TICK_MS}

\* The wall-clock time between two events: the timer's period, or a stall
Elapsed == {TICK_MS, MAX_INPUT_LAG}

NextInput ==
    \/ \E s \in Sockets, t \in InputTimestamps : PlayerInput(s, TRUE, t)
    \/ \E e \in Elapsed, o \in TickOutcomes(Quiet) : Tick(e, o, NoFault)
    \/ \E s \in Sockets : RespawnPlayer(s)

SpecInput == InitInput /\ [][NextInput]_vars

NextBurst ==
    \/ \E t \in InputTimestamps : PlayerInput("p1", TRUE, t)
    \/ \E e \in Elapsed, o \in TickOutcomes(Quiet) : Tick(e, o, NoFault)
    \/ RespawnPlayer("p1")

SpecBurst == InitBurst /\ [][NextBurst]_vars

\* Lobby ticks: every spawn attempt finds a tile, and the only contact is p1
\* reaching at most one coin in each room
CoinReach == [Quiet EXCEPT !.sockets = {"p1"}, !.coins = {0, 1}]

\* Lobby scenario, from process start: rooms are created, joined and
\* started while the loop ticks
NextTick ==
    \/ \E s \in Sockets, c \in RoomCodes : CreateRoom(s, c)
    \/ \E s \in Sockets, c \in RoomCodes : JoinRoom(s, c)
    \/ \E s \in Sockets : StartGame(s, FirstDraw)
    \/ \E o \in TickOutcomes(CoinReach) : Tick(TICK_MS, o, NoFault)

SpecTick == Init /\ [][NextTick]_vars

\* The places where an exception can leave updateRoom: the start of each
\* step after the game-time update
Faults == [room : RoomCodes, stage : 1..5]

\* Lobby scenario in which a room's update may throw
NextFault ==
    \/ \E s \in Sockets, c \in RoomCodes : CreateRoom(s, c)
    \/ \E s \in Sockets, c \in RoomCodes : JoinRoom(s, c)
    \/ \E s \in Sockets : StartGame(s, FirstDraw)
    \/ \E o \in TickOutcomes(Quiet), fault \in Faults \cup {NoFault} :
          Tick(TICK_MS, o, fault)

SpecFault == Init /\ [][NextFault]_vars

\* A list of n uncollected entries
Fresh(n) == [i \in 1..n |-> FALSE]

\* The enemies of a match of the given age in which every call of
\* spawnEnemy has found a tile: three, and two more every 30 s
EnemiesAt(gameTime) ==
    [i \in 1..(INITIAL_ENEMIES
               + ENEMIES_PER_SPAWN * (gameTime \div Seconds(ENEMY_SPAWN_INTERVAL))) |->
        Enemy(BASE_ENEMY_SPEED)]

\* The game state of R1 three minutes into a match, right after the spawn
\* timers have fired: p1 holds the given counters, p2 has collected nothing,
\* coins and sink collectibles lie uncollected, and the speeds are boosted
MidMatch(p1, coins, sinks) ==
    [SpeedBoostStep([GameState(StartedRoom, FirstDraw) EXCEPT
                        !.players[1] = p1,
                        !.gameTime = Seconds(180),
                        !.enemies = EnemiesAt(Seconds(180))]) EXCEPT
        !.coinsInitialized = TRUE,
        !.collectiblesInitialized = TRUE,
        !.coins = Fresh(coins),
        !.sinkCollectibles = Fresh(sinks),
        !.immunityPickups = <<[collected |-> FALSE, quadrant |-> 0]>>,
        !.nextCoinSpawnTime = Seconds(3),
        !.nextImmunityPickupSpawnTime = Seconds(25),
        !.nextSinkSpawnTime = Seconds(25)]

\* p1 a step or two below the immunity and sink caps, or at them
NearCaps ==
    {[Player("p1") EXCEPT !.coinsCollected = COINS_FOR_IMMUNITY - c,
                          !.immunityInventory = MAX_IMMUNITY_INVENTORY - i,
                          !.sinkInventory = MAX_SINK_INVENTORY - i] :
        c \in {1, 2}, i \in {0, 1}}

\* Inventory scenario: mid-match, p1 near the caps, p2 with nothing
InitInventory ==
    /\ now = StartTime
    /\ rooms = <<StartedRoom>>
    /\ \E p1 \in NearCaps :
          roomStates = MapSet(EmptyMap, "R1", MidMatch(p1, 10, MAX_SINK_COLLECTIBLES))
    /\ inputBuffers = EmptyMap
    /\ gameLoop = Started
    /\ alive = TRUE
    /\ inputsSent = 0
    /\ lastTick = NoTick
    /\ lastAction = Did("tick", "none", "ok")

\* In the inventory scenario p1 can reach several coins at once, and every
\* sink collectible
InventoryReach ==
    [Quiet EXCEPT !.sockets = {"p1"}, !.coins = {0, MaxTouch},
                  !.sinks = {0, MAX_SINK_COLLECTIBLES}]

NextInventory ==
    \/ \E o \in TickOutcomes(InventoryReach) : Tick(TICK_MS, o, NoFault)
    \/ \E s \in Sockets : DeploySink(s)
    \/ \E s \in Sockets : ActivateImmunity(s)
    \/ \E s \in Sockets : RespawnPlayer(s)

SpecInventory == InitInventory /\ [][NextInventory]_vars

\* A game state whose coin and sink-collectible spawn timers fire in the
\* next tick
Due(gameState) ==
    [gameState EXCEPT !.coinSpawnTimer = gameState.nextCoinSpawnTime - 1,
                      !.sinkSpawnTimer = gameState.nextSinkSpawnTime - 1]

\* p1 holding 3 sink traps
FullOfSinks == [Player("p1") EXCEPT !.sinkInventory = MAX_SINK_INVENTORY]

\* The game states the spawn scenario starts from: a match just started
\* (nothing seeded yet); a match one tick before the collectibles unlock;
\* and mid-match states with the coins and the sink collectibles at or just
\* below their caps and the spawn timers about to fire
SpawnStates ==
    {GameState(StartedRoom, FirstDraw)}
    \cup {[GameState(StartedRoom, FirstDraw) EXCEPT
              !.gameTime = Seconds(COLLECTIBLES_START_TIME) - 1,
              !.enemySpawnTimer = Seconds(COLLECTIBLES_START_TIME) - 1,
              !.coinsInitialized = TRUE,
              !.coins = Fresh(INITIAL_COINS),
              !.nextCoinSpawnTime = Seconds(3)]}
    \cup {Due(MidMatch(FullOfSinks, MAX_COINS - 2 * k, MAX_SINK_COLLECTIBLES - k)) :
              k \in {0, 1}}

\* Spawn scenario
InitSpawn ==
    /\ now = StartTime
    /\ rooms = <<StartedRoom>>
    /\ \E gameState \in SpawnStates : roomStates = MapSet(EmptyMap, "R1", gameState)
    /\ inputBuffers = EmptyMap
    /\ gameLoop = Started
    /\ alive = TRUE
    /\ inputsSent = 0
    /\ lastTick = NoTick
    /\ lastAction = Did("tick", "none", "ok")

\* In the spawn scenario spawn attempts can fail, batches have every size,
\* and p1 can reach several coins at once and every sink collectible
SpawnReach ==
    [Quiet EXCEPT !.sockets = {"p1"}, !.coins = {0, MaxTouch},
                  !.sinks = {0, MAX_SINK_COLLECTIBLES},
                  !.coinFail = MaxSpawnFail, !.numCoins = 3..5,
                  !.spawnFail = TRUE]

NextSpawn ==
    \/ \E o \in TickOutcomes(SpawnReach) : Tick(TICK_MS, o, NoFault)
    \/ DeploySink("p1")
    \/ RespawnPlayer("p1")

SpecSpawn == InitSpawn /\ [][NextSpawn]_vars

\* The places a player-created portal can be at: one second ahead of where
\* its maker stood, on the rim or inside the map
Spots == {"s1"}

\* Lava scenario: mid-match, p1 holds an immunity charge and has a portal of
\* its own making at s1, with `life` ticks left
InitLava ==
    /\ now = StartTime
    /\ rooms = <<StartedRoom>>
    /\ roomStates =
          MapSet(EmptyMap, "R1",
                 [MidMatch([Player("p1") EXCEPT !.immunityInventory = 1], 10, 0)
                     EXCEPT !.portals = Append(@, [CreatedPortal("s1") EXCEPT
                                                      !.life = Seconds(PORTAL_LIFE) \div 2])])
    /\ inputBuffers = EmptyMap
    /\ gameLoop = Started
    /\ alive = TRUE
    /\ inputsSent = 0
    /\ lastTick = NoTick
    /\ lastAction = Did("tick", "none", "ok")

\* In the lava scenario p1 can walk to s1, which is on the rim, can be on a
\* lava tile with or without a boat under it, and can be within reach of an
\* enemy
LavaReach ==
    [Quiet EXCEPT !.sockets = {"p1"}, !.lava = BOOLEAN, !.boat = BOOLEAN,
                  !.enemies = {0, 1}, !.moves = {"elsewhere", "s1"}]

NextLava ==
    \/ PlayerInput("p1", TRUE, now)
    \/ \E o \in TickOutcomes(LavaReach) : Tick(TICK_MS, o, NoFault)
    \/ ActivateImmunity("p1")

SpecLava == InitLava /\ [][NextLava]_vars

\* Portal scenario: mid-match, p1 one movement tick short of full energy,
\* or at full energy
InitPortal ==
    /\ now = StartTime
    /\ rooms = <<StartedRoom>>
    /\ \E e \in {ENERGY_PER_TICK * (ENERGY_FULL \div ENERGY_PER_TICK), ENERGY_FULL} :
          roomStates = MapSet(EmptyMap, "R1",
                              MidMatch([Player("p1") EXCEPT !.energy = e], 10, 0))
    /\ inputBuffers = EmptyMap
    /\ gameLoop = Started
    /\ alive = TRUE
    /\ inputsSent = 0
    /\ lastTick = NoTick
    /\ lastAction = Did("tick", "none", "ok")

\* The draws of the portal loop, one for each portal: the low end each time,
\* or 2 each time
PortalPicks == {[i \in 1..INITIAL_PORTALS + 1 |-> pick] : pick \in {0, 2}}

\* In the portal scenario p1 can walk onto the first portal
PortalReach ==
    [Quiet EXCEPT !.sockets = {"p1"}, !.moves = {"elsewhere", Tiles[1]},
                  !.picks = PortalPicks]

NextPortal ==
    \/ \E moving \in BOOLEAN : PlayerInput("p1", moving, now)
    \/ \E o \in TickOutcomes(PortalReach) : Tick(TICK_MS, o, NoFault)
    \/ \E s \in Sockets, spot \in Spots : UsePortal(s, spot)

SpecPortal == InitPortal /\ [][NextPortal]_vars

\* The game state of R1 `early` ticks before the 30th second of a match:
\* the coins are seeded, the first coin batch has come, the three enemies of
\* the start are there, and nothing else has happened
Before30(early) ==
    [GameState(StartedRoom,
               [FirstDraw EXCEPT
                   !.enemies = <<BASE_ENEMY_SPEED,
                                 BASE_ENEMY_SPEED + ENEMY_SPEED_SPREAD - 5,
                                 BASE_ENEMY_SPEED>>]) EXCEPT
        !.gameTime = Seconds(COLLECTIBLES_START_TIME) - early,
        !.enemySpawnTimer = Seconds(COLLECTIBLES_START_TIME) - early,
        !.coinsInitialized = TRUE,
        !.coins = Fresh(INITIAL_COINS),
        !.nextCoinSpawnTime = Seconds(3)]

\* Unlock scenario: two ticks, or one tick, before the 30th second
InitUnlock ==
    /\ now = StartTime
    /\ rooms = <<StartedRoom>>
    /\ \E early \in {1, 2} : roomStates = MapSet(EmptyMap, "R1", Before30(early))
    /\ inputBuffers = EmptyMap
    /\ gameLoop = Started
    /\ alive = TRUE
    /\ inputsSent = 0
    /\ lastTick = NoTick
    /\ lastAction = Did("tick", "none", "ok")

\* In the unlock scenario the placements of the first collectibles can fail,
\* spawnEnemy can find one tile or two, and p1 can reach a coin
UnlockReach ==
    [Quiet EXCEPT !.sockets = {"p1"}, !.coins = {0, 1}, !.spawnFail = TRUE,
                  !.enemySpawns = {<<BASE_ENEMY_SPEED>>,
                                   <<BASE_ENEMY_SPEED,
                                     BASE_ENEMY_SPEED + ENEMY_SPEED_SPREAD - 5>>}]

NextUnlock ==
    \/ \E o \in TickOutcomes(UnlockReach) : Tick(TICK_MS, o, NoFault)
    \/ PlayerInput("p1", TRUE, now)
    \/ RespawnPlayer("p1")

SpecUnlock == InitUnlock /\ [][NextUnlock]_vars

\* p1 with full energy, one sink trap, one immunity charge, and an active
\* immunity that ends in the next tick
Equipped ==
    [Player("p1") EXCEPT !.energy = ENERGY_FULL, !.sinkInventory = 1,
                         !.immunityInventory = 1, !.immunityActive = TRUE,
                         !.immunityEndTime = Seconds(180) + 1]

\* Player-action scenario: either p1 waits alone in room R1 and p2 is in no
\* room, or the match in R1 is three minutes old and p1 is equipped
InitAction ==
    /\ now = StartTime
    /\ \/ /\ rooms = <<Room("R1", "p1")>>
          /\ roomStates = EmptyMap
       \/ /\ rooms = <<StartedRoom>>
          /\ roomStates = MapSet(EmptyMap, "R1", MidMatch(Equipped, 10, 0))
    /\ inputBuffers = EmptyMap
    /\ gameLoop = Started
    /\ alive = TRUE
    /\ inputsSent = 0
    /\ lastTick = NoTick
    /\ lastAction = Did("start", "none", "ok")

NextAction ==
    \/ \E s \in Sockets, spot \in Spots : UsePortal(s, spot)
    \/ \E s \in Sockets : DeploySink(s)
    \/ \E s \in Sockets : ActivateImmunity(s)
    \/ \E s \in Sockets : RespawnPlayer(s)
    \/ PlayerInput("p1", FALSE, now)
    \/ StartGame("p1", FirstDraw)
    \/ \E o \in TickOutcomes(Quiet) : Tick(TICK_MS, o, NoFault)

SpecAction == InitAction /\ [][NextAction]_vars

\* p1 holding one sink trap
WithTrap == [Player("p1") EXCEPT !.sinkInventory = 1]

\* Snapshot scenario: mid-match with 3 coins, an immunity pickup and a sink
\* collectible on the map and one sink trap deployed
InitSnapshot ==
    /\ now = StartTime
    /\ rooms = <<StartedRoom>>
    /\ roomStates = MapSet(EmptyMap, "R1",
                           [MidMatch(WithTrap, 3, 1) EXCEPT
                               !.deployedSinks = <<[deployTime |-> Seconds(170)]>>])
    /\ inputBuffers = EmptyMap
    /\ gameLoop = Started
    /\ alive = TRUE
    /\ inputsSent = 0
    /\ lastTick = NoTick
    /\ lastAction = Did("start", "none", "ok")

\* p1 can reach a coin, a pickup and a sink collectible, and an enemy can
\* reach a deployed sink
SnapshotReach ==
    [Quiet EXCEPT !.sockets = {"p1"}, !.coins = {0, 1}, !.pickups = {0, 1},
                  !.sinks = {0, 1}, !.hits = {0, 1}]

NextSnapshot ==
    \/ \E o \in TickOutcomes(SnapshotReach) : Tick(TICK_MS, o, NoFault)
    \/ DeploySink("p1")

SpecSnapshot == InitSnapshot /\ [][NextSnapshot]_vars

\* The game state as initializeRoom(roomCode, mapSeed) builds it, with the
\* map and the seed it was generated from
WithMap(gameState, mapSeed) ==
    LET map == GenerateMapFrom(SeededRandom(mapSeed, 0))
    IN gameState @@ [map |-> [tiles |-> map.tiles, buildings |-> map.buildings,
                              trees |-> map.trees],
                     mapSeed |-> mapSeed]

\* Map scenario: the match in R1 has just been initialised with the seed
\* MapSeed; the room ticks, p1 sends inputs, and generateMap is called with
\* seeds of 0..MaxSeed
InitMap ==
    /\ now = StartTime
    /\ rooms = <<StartedRoom>>
    /\ roomStates = MapSet(EmptyMap, "R1",
                           WithMap(GameState(StartedRoom, FirstDraw), MapSeed))
    /\ inputBuffers = EmptyMap
    /\ gameLoop = Started
    /\ alive = TRUE
    /\ inputsSent = 0
    /\ lastTick = NoTick
    /\ lastAction = Did("start", "none", "ok")

NextMap ==
    \/ \E seed \in 0..MaxSeed : CallGenerateMap(seed)
    \/ PlayerInput("p1", TRUE, now)
    \/ \E o \in TickOutcomes(Quiet) : Tick(TICK_MS, o, NoFault)

SpecMap == InitMap /\ [][NextMap]_vars

\* Walk scenario: a player or an enemy is placed and moves through the city
NextWalk ==
    \/ \E tile \in InteriorTiles : PlacePlayer(tile)
    \/ \E dx, dy \in {-1, 0, 1} : MovePlayerStep(dx, dy)
    \/ \E tile \in InteriorTiles : PlaceEnemy(tile)
    \/ \E move \in EnemyMoves : MoveEnemyStep(move)

SpecWalk == Init /\ [][NextWalk]_vars

\* Respawn scenario: respawnPlayer is called in the city, with some enemies
\* about and some draws of tiles for its attempts
InitRespawn ==
    /\ now = StartTime
    /\ rooms = <<>>
    /\ roomStates = EmptyMap
    /\ inputBuffers = EmptyMap
    /\ gameLoop = Started
    /\ alive = TRUE
    /\ inputsSent = 0
    /\ lastTick = NoTick
    /\ \E enemies \in EnemySets, draws \in [1..MaxAttempts -> DrawTiles] :
          lastAction = Respawning(enemies, draws)

NextRespawn == PlaceRespawned

SpecRespawn == InitRespawn /\ [][NextRespawn]_vars

\* Immunity scenario: the match in R1 is three minutes old and the immunity
\* of p1, activated ten seconds less a tick ago, ends in the next tick; p1
\* can send inputs and can be within reach of an enemy
InitImmunity ==
    /\ now = StartTime
    /\ rooms = <<StartedRoom>>
    /\ roomStates = MapSet(EmptyMap, "R1", MidMatch(Equipped, 10, 0))
    /\ inputBuffers = EmptyMap
    /\ gameLoop = Started
    /\ alive = TRUE
    /\ inputsSent = 0
    /\ lastTick = NoTick
    /\ lastAction = Did("start", "none", "ok")

ImmunityReach == [Quiet EXCEPT !.sockets = {"p1"}, !.enemies = {0, 1}]

NextImmunity ==
    \/ \E moving \in BOOLEAN : PlayerInput("p1", moving, now)
    \/ \E o \in TickOutcomes(ImmunityReach) : Tick(TICK_MS, o, NoFault)

SpecImmunity == InitImmunity /\ [][NextImmunity]_vars

\* Scheduler scenario, from the construction of the loop: start and stop are
\* called in any order while p1 creates and starts a room
InitLoop ==
    /\ now = StartTime
    /\ rooms = <<>>
    /\ roomStates = EmptyMap
    /\ inputBuffers = EmptyMap
    /\ gameLoop = Constructed
    /\ alive = TRUE
    /\ inputsSent = 0
    /\ lastTick = NoTick
    /\ lastAction = Did("constructor", "none", "ok")

NextLoop ==
    \/ Start
    \/ Stop
    \/ CreateRoom("p1", "R1")
    \/ StartGame("p1", FirstDraw)
    \/ \E o \in TickOutcomes(Quiet) : Tick(TICK_MS, o, NoFault)

SpecLoop == InitLoop /\ [][NextLoop]_vars

\* Expiry scenario: mid-match, p1 has full energy and a portal of its own
\* making at s1 that has two ticks left to live
InitExpiry ==
    /\ now = StartTime
    /\ rooms = <<StartedRoom>>
    /\ roomStates =
          MapSet(EmptyMap, "R1",
                 [MidMatch([Player("p1") EXCEPT !.energy = ENERGY_FULL], 10, 0)
                     EXCEPT !.portals = Append(@, [CreatedPortal("s1") EXCEPT
                                                      !.life = MaxTicks])])
    /\ inputBuffers = EmptyMap
    /\ gameLoop = Started
    /\ alive = TRUE
    /\ inputsSent = 0
    /\ lastTick = NoTick
    /\ lastAction = Did("start", "none", "ok")

NextExpiry ==
    \/ \E moving \in BOOLEAN : PlayerInput("p1", moving, now)
    \/ \E o \in TickOutcomes(PortalReach) : Tick(TICK_MS, o, NoFault)
    \/ \E spot \in Spots : UsePortal("p1", spot)

SpecExpiry == InitExpiry /\ [][NextExpiry]_vars

\* Spawn scenario: initializePlayers places a player in the city, with some
\* draws of tiles for its attempts
InitSpawnPoint ==
    /\ now = StartTime
    /\ rooms = <<>>
    /\ roomStates = EmptyMap
    /\ inputBuffers = EmptyMap
    /\ gameLoop = Started
    /\ alive = TRUE
    /\ inputsSent = 0
    /\ lastTick = NoTick
    /\ \E draws \in [1..MaxAttempts -> DrawTiles \cup {<<2, 2>>, <<3, 1>>}] :
          lastAction = Spawning(draws)

NextSpawnPoint == PlaceSpawned

SpecSpawnPoint == InitSpawnPoint /\ [][NextSpawnPoint]_vars

\* Sink scenario: mid-match with one sink trap deployed and one in the hands
\* of p1; at the interaction pass of either player an enemy can be within
\* reach of a deployed sink, and either player can be standing on lava
SinkReach ==
    [Quiet EXCEPT !.sockets = Sockets, !.hits = {0, 1}, !.lava = BOOLEAN]

NextSink ==
    \/ \E o \in TickOutcomes(SinkReach) : Tick(TICK_MS, o, NoFault)
    \/ DeploySink("p1")

SpecSink == InitSnapshot /\ [][NextSink]_vars

\* Contact scenario: a player, immune or not, stands on the centre of a road
\* tile near the rim or on a crossing, an enemy is a step beside it or two
\* tiles away, and the draws of spawnEnemy are any tiles of DrawTiles
InitContact ==
    /\ now = StartTime
    /\ rooms = <<>>
    /\ roomStates = EmptyMap
    /\ inputBuffers = EmptyMap
    /\ gameLoop = Started
    /\ alive = TRUE
    /\ inputsSent = 0
    /\ lastTick = NoTick
    /\ \E tile \in {<<BLOCK_SIZE, 1>>, <<BLOCK_SIZE, BLOCK_SIZE>>},
          offset \in {StepOf(BASE_ENEMY_SPEED), 2 * TileSpan},
          immunityActive \in BOOLEAN,
          draws \in [1..MaxAttempts -> DrawTiles] :
          LET player == TileCentre(tile[1], tile[2])
          IN lastAction = Meeting(player, immunityActive,
                                  [player EXCEPT !.y = @ + offset], draws)

NextContact == TestContact

SpecContact == InitContact /\ [][NextContact]_vars

\* Flank scenario: a newly spawned enemy is updated tick after tick; the
\* line to its nearest player is one of Lines before and after the move, and
\* the map blocks either axis of the move or none
Lines ==
    {NoDirection, [x |-> DirScale, y |-> 0], [x |-> 25, y |-> 60]}

InitFlank ==
    /\ now = StartTime
    /\ rooms = <<>>
    /\ roomStates = EmptyMap
    /\ inputBuffers = EmptyMap
    /\ gameLoop = Started
    /\ alive = TRUE
    /\ inputsSent = 0
    /\ lastTick = NoTick
    /\ lastAction = Updated("spawnEnemy", SpawnedFlankState, NoDirection, NoDirection,
                            NoDirection, NoDirection, 0, FALSE)

NextFlank ==
    \E line \in Lines, xBlocked \in BOOLEAN, yBlocked \in BOOLEAN,
       after \in Lines, left \in BOOLEAN :
        UpdateEnemy(line, xBlocked, yBlocked, after, left)

SpecFlank == InitFlank /\ [][NextFlank]_vars

\* The same with the interval timer firing for ever
SpecFlankFair == SpecFlank /\ WF_vars(NextFlank)

\* Membership scenario, from process start: rooms are created, joined,
\* started, left and disconnected from while players ask for respawns and
\* for immunity, and the timer fires
NextMembers ==
    \/ CreateRoom("p1", "R1")
    \/ \E s \in Sockets : JoinRoom(s, "R1")
    \/ \E s \in Sockets : StartGame(s, FirstDraw)
    \/ LeaveRoom("p1")
    \/ Disconnect("p2")
    \/ \E s \in Sockets : RespawnPlayer(s)
    \/ ActivateImmunity("p2")
    \/ \E o \in TickOutcomes(Quiet) : Tick(TICK_MS, o, NoFault)

SpecMembers == Init /\ [][NextMembers]_vars

\* Teardown scenario, from process start: rooms are created, joined,
\* started, left and disconnected from while players send inputs and the
\* loop ticks
NextTeardown ==
    \/ \E s \in Sockets : CreateRoom(s, "R1")
    \/ \E s \in Sockets : JoinRoom(s, "R1")
    \/ \E s \in Sockets : StartGame(s, FirstDraw)
    \/ \E s \in Sockets : LeaveRoom(s)
    \/ \E s \in Sockets : Disconnect(s)
    \/ PlayerInput("p1", TRUE, now)
    \/ \E o \in TickOutcomes(Quiet) : Tick(TICK_MS, o, NoFault)

SpecTeardown == Init /\ [][NextTeardown]_vars

\* The player ids a caller passes: the sockets and an id that is in no room
PlayerIds == Sockets \cup {"p3"}

\* Manager scenario: the methods of the manager called with any room code and
\* any player id, before and during a match
NextManager ==
    \/ \E roomCode \in RoomCodes : CallInitializeRoom(roomCode, FirstDraw)
    \/ \E roomCode \in RoomCodes : CallGetGameState(roomCode)
    \/ \E roomCode \in RoomCodes, playerId \in PlayerIds :
          CallRespawnPlayer(roomCode, playerId)
    \/ PlayerInput("p1", TRUE, now)
    \/ \E o \in TickOutcomes(Quiet) : Tick(TICK_MS, o, NoFault)

SpecManager == InitAction /\ [][NextManager]_vars

----------------------------------------------------------------------------
(* Input buffer properties *)

\* The positions of a buffer that a tick at currentTime may consume
Eligible(buffer, currentTime) ==
    {i \in 1..Len(buffer) :
        ~buffer[i].processed /\ buffer[i].timestamp <= currentTime}

\* The players of the playing rooms that have a game state
ActivePlayers ==
    {s \in Sockets :
        \E i \in 1..Len(rooms) :
            /\ rooms[i].status = "playing"
            /\ rooms[i].code \in DOMAIN roomStates
            /\ PlayerIndex(roomStates[rooms[i].code], s) # 0}

\* C1: latest-wins selection.  In the last tick, for every player of a
\* playing room whose buffer held an unprocessed input stamped at or before
\* the tick's time, exactly one input was applied, it is an unprocessed input
\* with the greatest such timestamp, every other such input was marked
\* processed without being applied, and the inputs stamped after the tick's
\* time stayed unprocessed.
C1_LatestWins ==
    lastTick.n > 0 =>
        \A s \in ActivePlayers :
            LET buffer == lastTick.before[s]
                marked == lastTick.marked[s]
                eligible == Eligible(buffer, lastTick.currentTime)
                appliedAt == {i \in 1..Len(buffer) :
                                 marked[i].applied # buffer[i].applied}
            IN /\ Len(marked) = Len(buffer)
               /\ eligible # {} =>
                    /\ Cardinality(appliedAt) = 1
                    /\ Len(lastTick.applied[s]) = 1
                    /\ \A i \in appliedAt :
                          /\ i \in eligible
                          /\ marked[i].applied = buffer[i].applied + 1
                          /\ lastTick.applied[s][1] = buffer[i].timestamp
                          /\ \A j \in eligible :
                                buffer[j].timestamp <= buffer[i].timestamp
                    /\ \A j \in eligible : marked[j].processed
                    /\ \A j \in 1..Len(buffer) :
                          buffer[j].timestamp > lastTick.currentTime =>
                              ~marked[j].processed

\* C1 witness: a tick found two unprocessed inputs of different timestamps,
\* both at or before its time, in one player's buffer, and applied one
C1_Witness ==
    /\ lastTick.n > 0
    /\ \E s \in ActivePlayers :
          /\ \E i, j \in Eligible(lastTick.before[s], lastTick.currentTime) :
                lastTick.before[s][i].timestamp < lastTick.before[s][j].timestamp
          /\ Len(lastTick.applied[s]) = 1

\* C2: no replay.  A tick applies at most one input to a player, no
\* buffered input has been applied more than once, and an input that was
\* already processed (applied or superseded) when a tick found it was not
\* applied by that tick.
C2_NoReplay ==
    /\ \A s \in Sockets : Len(lastTick.applied[s]) <= 1
    /\ \A s \in DOMAIN inputBuffers :
          \A i \in 1..Len(inputBuffers[s]) : inputBuffers[s][i].applied <= 1
    /\ \A s \in Sockets :
          \A i \in 1..Len(lastTick.marked[s]) :
              /\ lastTick.marked[s][i].applied <= 1
              /\ lastTick.before[s][i].processed =>
                    lastTick.marked[s][i].applied = lastTick.before[s][i].applied

\* C2 witness: a second tick found an input that an earlier tick had applied,
\* next to a newer unprocessed one, and applied only the newer one
C2_Witness ==
    /\ lastTick.n > 1
    /\ \E s \in ActivePlayers :
          /\ \E i \in 1..Len(lastTick.before[s]) :
                /\ lastTick.before[s][i].processed
                /\ lastTick.before[s][i].applied = 1
                /\ lastTick.before[s][i].timestamp <= lastTick.currentTime
          /\ Eligible(lastTick.before[s], lastTick.currentTime) # {}
          /\ Len(lastTick.applied[s]) = 1

\* C3: every player's input buffer holds at most 60 entries
C3_BufferBounded ==
    \A s \in DOMAIN inputBuffers : Len(inputBuffers[s]) <= INPUT_BUFFER_SIZE

\* C3 witness: a push onto a buffer that already held 60 entries has just
\* left it at 60
C3_Witness ==
    /\ lastAction.name = "player_input"
    /\ lastAction.result = "ok"
    /\ inputsSent >= 2
    /\ Len(MapGet(inputBuffers, lastAction.socket, <<>>)) = INPUT_BUFFER_SIZE

\* A buffer whose timestamps never decrease from one entry to the next
IsSorted(buffer) ==
    \A i \in 1..Len(buffer) - 1 : buffer[i].timestamp <= buffer[i + 1].timestamp

\* C4: after every push, in whatever order the timestamps arrive, and after
\* every tick's pruning, each buffer is in non-decreasing timestamp order
C4_BufferSorted ==
    \A s \in DOMAIN inputBuffers : IsSorted(inputBuffers[s])

\* C4 witness: the input just pushed carries a timestamp below one already
\* buffered, and is not the last entry of the buffer
C4_Witness ==
    /\ lastAction.name = "player_input"
    /\ lastAction.result = "ok"
    /\ LET buffer == MapGet(inputBuffers, lastAction.socket, <<>>)
       IN /\ Len(buffer) >= 2
          /\ buffer[Len(buffer)].timestamp > lastAction.timestamp

----------------------------------------------------------------------------
(* Game loop properties *)

\* The rooms that a tick in the current state updates: status playing, and
\* a game state exists
UpdatedRooms ==
    {c \in RoomCodes :
        /\ c \in DOMAIN roomStates
        /\ \E i \in 1..Len(rooms) : rooms[i].code = c /\ rooms[i].status = "playing"}

\* C5: in every tick, each playing room with a game state gets exactly one
\* update pass (its game time advances by one tick, 1/20 s) and exactly one
\* snapshot, which shows the room as the tick leaves it; every other room is
\* left as it was and gets no snapshot.
C5_TickUpdatesPlayingRooms ==
    [][lastTick'.n = lastTick.n + 1 =>
          /\ rooms' = rooms
          /\ DOMAIN roomStates' = DOMAIN roomStates
          /\ lastTick'.updated = UpdatedRooms
          /\ \A c \in UpdatedRooms :
                /\ roomStates'[c].gameTime = roomStates[c].gameTime + 1
                /\ lastTick'.broadcasts[c] = <<ClientState(roomStates'[c])>>
          /\ \A c \in RoomCodes \ UpdatedRooms :
                /\ c \in DOMAIN roomStates => roomStates'[c] = roomStates[c]
                /\ lastTick'.broadcasts[c] = <<>>]_vars

\* C5 witness: a tick has updated a playing room in which a coin was
\* collected, and sent its snapshot, while another room was waiting
C5_Witness ==
    /\ lastAction.name = "tick"
    /\ \E c \in lastTick.updated :
          /\ Len(lastTick.broadcasts[c]) = 1
          /\ \E k \in 1..Len(roomStates[c].players) :
                roomStates[c].players[k].coinsCollected > 0
    /\ \E i \in 1..Len(rooms) :
          /\ rooms[i].status = "waiting"
          /\ lastTick.broadcasts[rooms[i].code] = <<>>

\* C6: room isolation.  When the update of one playing room has thrown in
\* the last tick, every other playing room has still been updated and sent
\* its snapshot in that tick, and the loop is still ticking.
C6_RoomIsolation ==
    lastTick.thrown # "none" =>
        /\ alive
        /\ \A c \in UpdatedRooms \ {lastTick.thrown} :
              /\ c \in lastTick.updated
              /\ Len(lastTick.broadcasts[c]) = 1

----------------------------------------------------------------------------
(* Inventory properties *)

\* The players of every game state, as a set
AllPlayers ==
    UNION {Range(roomStates[c].players) : c \in DOMAIN roomStates}

\* C7: every player's immunity inventory and sink inventory are in 0..3
C7_InventoriesInRange ==
    \A player \in AllPlayers :
        /\ player.immunityInventory \in 0..MAX_IMMUNITY_INVENTORY
        /\ player.sinkInventory \in 0..MAX_SINK_INVENTORY

\* The contact of player s in the last tick of room c
LastContact(c, s) == lastTick.outcome[c].contact[s]

\* C7 witness: in the last tick a player holding 3 immunity charges and 3
\* sink traps reached coins that completed a set of five, and sink
\* collectibles, which stay on the map
C7_Witness ==
    /\ lastAction.name = "tick"
    /\ \E c \in lastTick.updated :
          \E k \in 1..Len(roomStates[c].players) :
              LET player == roomStates[c].players[k]
              IN /\ player.immunityInventory = MAX_IMMUNITY_INVENTORY
                 /\ player.sinkInventory = MAX_SINK_INVENTORY
                 /\ player.coinsCollected = COINS_FOR_IMMUNITY - 1
                 /\ LastContact(c, player.id).coins > 0
                 /\ LastContact(c, player.id).sinks > 0
                 /\ Uncollected(roomStates[c].sinkCollectibles) > 0

\* The coin counter and immunity inventory that the conversion rule gives
\* after n more coins: each coin adds one to the counter; at 5, below 3
\* charges the inventory gains one and the counter returns to 0, at 3 charges
\* the counter is set to 4
RECURSIVE AfterCoins(_, _, _)
AfterCoins(counter, inventory, n) ==
    IF n = 0 THEN [counter |-> counter, inventory |-> inventory]
    ELSE IF counter + 1 < COINS_FOR_IMMUNITY
         THEN AfterCoins(counter + 1, inventory, n - 1)
         ELSE IF inventory < MAX_IMMUNITY_INVENTORY
              THEN AfterCoins(0, inventory + 1, n - 1)
              ELSE AfterCoins(COINS_FOR_IMMUNITY - 1, MAX_IMMUNITY_INVENTORY, n - 1)

\* The coins of a room that are flagged collected: those taken in the last
\* tick, the earlier ones having been purged before its collision pass
Taken(gameState) == Len(gameState.coins) - Uncollected(gameState.coins)

RECURSIVE SumTo(_, _)
SumTo(share, k) == IF k = 0 THEN 0 ELSE share[k] + SumTo(share, k - 1)

\* C8: in every tick the coins taken in a room are shared among its players
\* so that each player's coin counter and immunity inventory change by the
\* conversion rule; and the coin counter is in 0..4 in every state.
C8_CoinConversion ==
    /\ [][lastTick'.n = lastTick.n + 1 =>
            \A c \in UpdatedRooms :
                LET before == roomStates[c].players
                    after == roomStates'[c].players
                    taken == Taken(roomStates'[c])
                IN \E share \in [1..Len(before) -> 0..taken] :
                      /\ SumTo(share, Len(before)) = taken
                      /\ \A k \in 1..Len(before) :
                            LET rule == AfterCoins(before[k].coinsCollected,
                                                   before[k].immunityInventory,
                                                   share[k])
                            IN /\ after[k].coinsCollected = rule.counter
                               /\ after[k].immunityInventory = rule.inventory]_vars
    /\ [](\A player \in AllPlayers :
              player.coinsCollected \in 0..COINS_FOR_IMMUNITY - 1)

\* C8 witness: in the last tick a player took a fifth coin and gained the
\* third charge, with the counter back at 0
C8_Witness ==
    /\ lastAction.name = "tick"
    /\ \E c \in lastTick.updated :
          /\ Taken(roomStates[c]) > 0
          /\ \E k \in 1..Len(roomStates[c].players) :
                LET player == roomStates[c].players[k]
                IN /\ LastContact(c, player.id).coins > 0
                   /\ player.immunityInventory = MAX_IMMUNITY_INVENTORY
                   /\ player.coinsCollected = 0

----------------------------------------------------------------------------
(* Spawn cap properties *)

\* C9: in every room the number of uncollected coins is at most 40
C9_CoinsBounded ==
    \A c \in DOMAIN roomStates : Uncollected(roomStates[c].coins) <= MAX_COINS

\* C9 witness: the last tick's batch of 5 coins fired in a room that now
\* holds 40 uncollected coins, none having been taken in that tick
C9_Witness ==
    /\ lastAction.name = "tick"
    /\ \E c \in lastTick.updated :
          /\ roomStates[c].coinSpawnTimer = 0
          /\ lastTick.outcome[c].numCoins = 5
          /\ Taken(roomStates[c]) = 0
          /\ Uncollected(roomStates[c].coins) = MAX_COINS

\* C10: in every room the number of uncollected sink collectibles is at
\* most 2
C10_SinkCollectiblesBounded ==
    \A c \in DOMAIN roomStates :
        Uncollected(roomStates[c].sinkCollectibles) <= MAX_SINK_COLLECTIBLES

\* C10 witness: in the last tick the sink spawn timer fired and a tile was
\* found, while a player holding 3 sink traps stood on sink collectibles
\* without taking them, and 2 lie uncollected
C10_Witness ==
    /\ lastAction.name = "tick"
    /\ \E c \in lastTick.updated :
          /\ roomStates[c].sinkSpawnTimer = 0
          /\ lastTick.outcome[c].sinkFound
          /\ Uncollected(roomStates[c].sinkCollectibles) = MAX_SINK_COLLECTIBLES
          /\ \E k \in 1..Len(roomStates[c].players) :
                /\ roomStates[c].players[k].sinkInventory = MAX_SINK_INVENTORY
                /\ LastContact(c, roomStates[c].players[k].id).sinks > 0

----------------------------------------------------------------------------
(* Collision properties *)

\* The events of the last tick that signal the death of player s by `cause`
Deaths(s, cause) ==
    {i \in 1..Len(lastTick.events) :
        /\ lastTick.events[i].event = "player_death"
        /\ lastTick.events[i].playerId = s
        /\ lastTick.events[i].cause = cause}

\* The portal hops of player s in the last tick
Hops(s) ==
    {i \in 1..Len(lastTick.hops) : lastTick.hops[i].playerId = s}

\* C11: lava rule.  In every tick, for every player of an updated room whose
\* tile is lava: with no boat under the player, exactly one death is
\* signalled for it, to its room, and neither the enemy check nor the portal
\* check acts on it (no death by an enemy, no hop); with a boat under it, no
\* death is signalled for standing on lava.
C11_LavaRule ==
    \A c \in lastTick.updated :
        \A k \in 1..Len(roomStates[c].players) :
            LET s == roomStates[c].players[k].id
            IN LastContact(c, s).lava =>
                  IF LastContact(c, s).boat
                  THEN Deaths(s, "lava") = {}
                  ELSE /\ Cardinality(Deaths(s, "lava")) = 1
                       /\ \A i \in Deaths(s, "lava") : lastTick.events[i].to = c
                       /\ Deaths(s, "enemy") = {}
                       /\ Hops(s) = {}

\* C11 witness: in the last tick a player without immunity stood on lava with
\* no boat, within reach of an enemy and at a portal with its cooldown
\* elapsed, and its death by lava was signalled
C11_Witness ==
    /\ lastAction.name = "tick"
    /\ \E c \in lastTick.updated :
          \E k \in 1..Len(roomStates[c].players) :
             LET player == roomStates[c].players[k]
             IN /\ LastContact(c, player.id).lava
                /\ ~LastContact(c, player.id).boat
                /\ LastContact(c, player.id).enemies > 0
                /\ ~player.immunityActive
                /\ player.portalCooldown <= 0
                /\ \E i \in 1..Len(roomStates[c].portals) :
                      roomStates[c].portals[i].place = player.place
                /\ Deaths(player.id, "lava") # {}

\* The first portal that player s touched in the last tick
FirstTouched(s) ==
    lastTick.hops[CHOOSE i \in Hops(s) : \A j \in Hops(s) : i <= j].from

\* C12: portal teleport.  Whenever a player with elapsed cooldown touches a
\* portal P in a tick while another portal exists, the player ends the
\* tick's collision pass at the position of a portal other than P and away
\* from P, with a portal cooldown of exactly 2 s and an empty trail.
C12_PortalTeleport ==
    \A c \in lastTick.updated :
        \A k \in 1..Len(roomStates[c].players) :
            LET player == roomStates[c].players[k]
                portals == roomStates[c].portals
            IN Hops(player.id) # {} =>
                  /\ \E j \in 1..Len(portals) :
                        /\ j # FirstTouched(player.id)
                        /\ player.place = portals[j].place
                  /\ player.place # portals[FirstTouched(player.id)].place
                  /\ player.portalCooldown = Seconds(PORTAL_COOLDOWN)
                  /\ player.trail = <<>>

----------------------------------------------------------------------------
(* Player action properties *)

\* The step is the handling of the game event `name`
Handles(name) == inputsSent' = inputsSent + 1 /\ lastAction'.name = name

\* The energy of player s in the game states, as a set
EnergyOf(states, s) ==
    UNION {{states[c].players[k].energy :
               k \in {i \in 1..Len(states[c].players) : states[c].players[i].id = s}} :
           c \in DOMAIN states}

\* C18: a use_portal request of a player of a running match is accepted
\* exactly when the player's energy is 1; an accepted request sets the energy
\* to 0 and adds exactly one portal, player-created, with a life of 10 s; a
\* refused one changes nothing.  Energy rises only in a tick that applies an
\* input of the player, and is in [0, 1] in every state.
C18_UsePortal ==
    /\ [][Handles("use_portal") =>
             LET t == ActionTarget(lastAction'.socket)
                 gameState == roomStates[t.roomCode]
                 after == roomStates'[t.roomCode]
             IN t.k # 0 =>
                   /\ lastAction'.result = "ok" <=>
                         gameState.players[t.k].energy = ENERGY_FULL
                   /\ lastAction'.result = "ok" =>
                         /\ after.players[t.k].energy = 0
                         /\ Len(after.portals) = Len(gameState.portals) + 1
                         /\ SubSeq(after.portals, 1, Len(gameState.portals))
                               = gameState.portals
                         /\ after.portals[Len(after.portals)].isPlayerCreated
                         /\ after.portals[Len(after.portals)].timed
                         /\ after.portals[Len(after.portals)].life
                               = Seconds(PORTAL_LIFE)
                   /\ lastAction'.result # "ok" => roomStates' = roomStates]_vars
    /\ [][\A s \in Sockets :
             (\E e \in EnergyOf(roomStates, s), f \in EnergyOf(roomStates', s) : f > e)
                => /\ lastTick'.n = lastTick.n + 1
                   /\ Len(lastTick'.applied[s]) = 1]_vars
    /\ [](\A player \in AllPlayers : player.energy \in 0..ENERGY_FULL)

\* C18 witness: a player has made a portal and, with no movement since, has
\* just been refused a second one
C18_Witness ==
    /\ lastAction.name = "use_portal"
    /\ lastAction.result = "rejected"
    /\ LET t == ActionTarget(lastAction.socket)
       IN /\ t.k # 0
          /\ roomStates[t.roomCode].players[t.k].energy = 0
          /\ \E i \in 1..Len(roomStates[t.roomCode].portals) :
                /\ roomStates[t.roomCode].portals[i].isPlayerCreated
                /\ roomStates[t.roomCode].portals[i].life = Seconds(PORTAL_LIFE)

----------------------------------------------------------------------------
(* Properties of the 30th second *)

\* C13: the speed boost happens once.  The boost flag is set in the first
\* tick whose game time is >= 30 s and stays set; the enemies present in
\* that tick have their speed multiplied by 1.2 in it, and no enemy's speed
\* changes in any other step; every enemy has been multiplied exactly once
\* when the flag is set (at its spawn if it came in or after that tick) and
\* never before.
C13_SpeedBoostOnce ==
    /\ [][\A c \in DOMAIN roomStates :
             LET gameState == roomStates[c]
                 after == roomStates'[c]
                 old == 1..Len(gameState.enemies)
             IN /\ gameState.speedBoostApplied => after.speedBoostApplied
                /\ Len(after.enemies) >= Len(gameState.enemies)
                /\ IF ~gameState.speedBoostApplied /\ after.speedBoostApplied
                   THEN /\ after.gameTime = Seconds(SPEED_BOOST_TIME)
                        /\ \A i \in old : after.enemies[i].speed
                                             = Boosted(gameState.enemies[i].speed)
                   ELSE \A i \in old : after.enemies[i].speed
                                          = gameState.enemies[i].speed]_vars
    /\ [](\A c \in DOMAIN roomStates :
             /\ roomStates[c].speedBoostApplied
                   <=> roomStates[c].gameTime >= Seconds(SPEED_BOOST_TIME)
             /\ \A i \in 1..Len(roomStates[c].enemies) :
                   /\ roomStates[c].enemies[i].boosts
                         = IF roomStates[c].speedBoostApplied THEN 1 ELSE 0
                   /\ roomStates[c].enemies[i].speed \in
                         IF roomStates[c].speedBoostApplied
                         THEN {Boosted(speed) : speed \in EnemySpeeds}
                         ELSE EnemySpeeds)

\* C13 witness: a tick after the one in which the boost and the 30 s enemy
\* spawn fell together has just run
C13_Witness ==
    /\ lastAction.name = "tick"
    /\ \E c \in lastTick.updated :
          /\ roomStates[c].gameTime > Seconds(SPEED_BOOST_TIME)
          /\ roomStates[c].enemySpawnTimer = 1
          /\ Len(roomStates[c].enemies) = INITIAL_ENEMIES + ENEMIES_PER_SPAWN

\* C14: collectible lock.  While a match's game time is below 30 s its
\* immunity pickups and sink collectibles are empty and their two spawn
\* timers are still 0.
C14_CollectibleLock ==
    \A c \in DOMAIN roomStates :
        roomStates[c].gameTime < Seconds(COLLECTIBLES_START_TIME) =>
            /\ roomStates[c].immunityPickups = <<>>
            /\ roomStates[c].sinkCollectibles = <<>>
            /\ roomStates[c].immunityPickupSpawnTimer = 0
            /\ roomStates[c].sinkSpawnTimer = 0
            /\ ~roomStates[c].collectiblesInitialized

\* C14 witness: a tick has just left a match below 30 s, later than the
\* first thresholds of both timers
C14_Witness ==
    /\ lastAction.name = "tick"
    /\ \E c \in lastTick.updated :
          /\ roomStates[c].gameTime < Seconds(COLLECTIBLES_START_TIME)
          /\ roomStates[c].gameTime >= roomStates[c].nextImmunityPickupSpawnTime
          /\ roomStates[c].gameTime >= roomStates[c].nextSinkSpawnTime

\* C15: collectible unlock.  After the tick that brings the game time to
\* 30 s the match holds exactly 4 immunity pickups, one tagged with each
\* quadrant, and exactly 1 sink collectible, whatever the placement draws.
C15_CollectibleUnlock ==
    \A c \in lastTick.updated :
        roomStates[c].gameTime = Seconds(COLLECTIBLES_START_TIME) =>
            /\ roomStates[c].collectiblesInitialized
            /\ Len(roomStates[c].immunityPickups) = 4
            /\ \A q \in 0..3 :
                  \E i \in 1..Len(roomStates[c].immunityPickups) :
                      roomStates[c].immunityPickups[i].quadrant = q
            /\ Len(roomStates[c].sinkCollectibles) = 1

\* A request `name` of socket s fails one of its handler's checks in the
\* current state: no playing room, no game state, not a player of the match,
\* or the action's own precondition
FailsChecks(name, s) ==
    LET t == ActionTarget(s)
        player == roomStates[t.roomCode].players[t.k]
    IN \/ t.k = 0
       \/ name = "use_portal" /\ player.energy < ENERGY_FULL
       \/ name = "deploy_sink" /\ player.sinkInventory <= 0
       \/ name = "activate_immunity" /\ player.immunityInventory <= 0
       \/ name = "activate_immunity" /\ player.immunityActive

\* C16: a use_portal, deploy_sink or activate_immunity request that fails
\* any of its checks leaves every game state and every input buffer as it
\* was.
C16_RejectionMutatesNothing ==
    [][\A name \in {"use_portal", "deploy_sink", "activate_immunity"} :
          Handles(name) /\ FailsChecks(name, lastAction'.socket) =>
              /\ roomStates' = roomStates
              /\ inputBuffers' = inputBuffers
              /\ rooms' = rooms
              /\ lastAction'.result # "ok"]_vars

\* C16 witness: a player of a running match with no sink trap left has just
\* been refused a deploy_sink
C16_Witness ==
    /\ lastAction.name = "deploy_sink"
    /\ lastAction.result = "rejected"
    /\ ActionTarget(lastAction.socket).k # 0
    /\ roomStates[ActionTarget(lastAction.socket).roomCode]
          .players[ActionTarget(lastAction.socket).k].sinkInventory = 0

\* C17: every refusal of a player action of a socket that is in a room (the
\* room is not playing, or the energy, the inventory or a running immunity
\* forbids the action) emits exactly one 'action_error' message, to the
\* requesting socket.
C17_RejectionMessage ==
    (/\ lastAction.name \in {"use_portal", "deploy_sink", "activate_immunity",
                             "respawn_player"}
     /\ lastAction.result # "ok"
     /\ GetRoomCodeForSocket(lastAction.socket) # "null")
        => /\ Len(lastAction.errors) = 1
           /\ lastAction.errors[1].to = lastAction.socket

\* C19: an activate_immunity request of a player of a running match is
\* accepted exactly when the player holds a charge and has no immunity whose
\* end time is still ahead; an accepted request takes one charge, switches
\* the immunity on and sets its end time to the game time + 10 s.
C19_ActivateImmunity ==
    [][Handles("activate_immunity") =>
          LET t == ActionTarget(lastAction'.socket)
              gameState == roomStates[t.roomCode]
              player == gameState.players[t.k]
              after == roomStates'[t.roomCode].players[t.k]
          IN t.k # 0 =>
                /\ lastAction'.result = "ok" <=>
                      /\ player.immunityInventory > 0
                      /\ ~(/\ player.immunityActive
                           /\ player.immunityEndTime > gameState.gameTime)
                /\ lastAction'.result = "ok" =>
                      /\ after.immunityInventory = player.immunityInventory - 1
                      /\ after.immunityActive
                      /\ after.immunityEndTime
                            = gameState.gameTime + Seconds(IMMUNITY_DURATION)]_vars

\* C20: a manager method that does not find its room, game state or player
\* returns null and has no side effect: initializeRoom for a room code that
\* names no room stores no game state; getGameState for a room without game
\* state changes nothing; respawnPlayer for a room without game state, or
\* for a player id that is not in the game state, changes neither the game
\* states nor the input buffers.
C20_NotFoundIsNull ==
    [][/\ (Handles("initializeRoom") /\ RoomIndex(lastAction'.roomCode) = 0)
             => /\ lastAction'.result = "null"
                /\ roomStates' = roomStates
       /\ (Handles("getGameState") /\ lastAction'.roomCode \notin DOMAIN roomStates)
             => /\ lastAction'.result = "null"
                /\ roomStates' = roomStates
                /\ inputBuffers' = inputBuffers
       /\ (/\ Handles("respawnPlayer")
           /\ \/ lastAction'.roomCode \notin DOMAIN roomStates
              \/ PlayerIndex(roomStates[lastAction'.roomCode], lastAction'.socket) = 0)
             => /\ lastAction'.result = "null"
                /\ roomStates' = roomStates
                /\ inputBuffers' = inputBuffers]_vars

\* C20 witness: respawnPlayer has returned null for a room without game
\* state while a match runs in another room and the player id has an input
\* waiting in its buffer
C20_Witness ==
    /\ lastAction.name = "respawnPlayer"
    /\ lastAction.result = "null"
    /\ lastAction.roomCode \notin DOMAIN roomStates
    /\ DOMAIN roomStates # {}
    /\ lastAction.socket \in DOMAIN inputBuffers
    /\ inputBuffers[lastAction.socket] # <<>>

\* C21: every game state in the store belongs to a room that exists: the
\* game state of a room is gone once the room is torn down.  (The store is
\* keyed by room code, so a room has at most one game state.)
C21_GameStateFollowsRoom ==
    \A roomCode \in DOMAIN roomStates : roomCode \in RoomCodesInUse

\* C22: once a disconnect has torn a room down and cleanupRoom has run, no
\* input buffer is left for the socket that disconnected or for any player
\* of that room's match.
C22_CleanupReleasesBuffers ==
    (lastAction.name = "disconnect" /\ lastAction.result = "room_deleted")
        => \A p \in lastAction.members \cup {lastAction.socket} :
               p \notin DOMAIN inputBuffers

\* The snapshot that the last tick sent to room c
Snapshot(c) == lastTick.broadcasts[c][1]

\* C23: the snapshot of every tick lists only uncollected coins, immunity
\* pickups and sink collectibles, as many as the game state holds
\* uncollected, and the deployed sinks that the tick has left; a deployed
\* sink that an enemy reached in the tick is not among them.
C23_SnapshotContents ==
    /\ [](lastAction.name = "tick" =>
             \A c \in lastTick.updated :
                 /\ Len(lastTick.broadcasts[c]) = 1
                 /\ \A i \in 1..Len(Snapshot(c).coins) : ~Snapshot(c).coins[i]
                 /\ \A i \in 1..Len(Snapshot(c).immunityPickups) :
                       ~Snapshot(c).immunityPickups[i].collected
                 /\ \A i \in 1..Len(Snapshot(c).sinkCollectibles) :
                       ~Snapshot(c).sinkCollectibles[i]
                 /\ Len(Snapshot(c).coins) = Uncollected(roomStates[c].coins)
                 /\ Len(Snapshot(c).immunityPickups)
                       = UncollectedPickups(roomStates[c].immunityPickups)
                 /\ Len(Snapshot(c).sinkCollectibles)
                       = Uncollected(roomStates[c].sinkCollectibles)
                 /\ Snapshot(c).deployedSinks = roomStates[c].deployedSinks)
    /\ [][lastTick'.n = lastTick.n + 1 =>
             \A c \in UpdatedRooms : \A s \in Sockets :
                 LET contact == lastTick'.outcome[c].contact[s]
                     before == roomStates[c].deployedSinks
                     sent == lastTick'.broadcasts[c][1].deployedSinks
                 IN (/\ PlayerIndex(roomStates[c], s) # 0
                     /\ roomStates[c].enemies # <<>>
                     /\ ~SkipsOnLava(contact))
                       => /\ Len(sent) <= Len(before)
                                          - Min(contact.sinksNearEnemy, Len(before))
                          /\ \A i \in 1..Len(sent) : sent[i] \in Range(before)]_vars

\* C23 witness: in the last tick p1 took a coin, the immunity pickup and the
\* sink collectible, and an enemy reached the deployed sink
C23_Witness ==
    /\ lastAction.name = "tick"
    /\ "R1" \in lastTick.updated
    /\ LastContact("R1", "p1").coins = 1
    /\ LastContact("R1", "p1").pickups = 1
    /\ LastContact("R1", "p1").sinks = 1
    /\ LastContact("R1", "p1").sinksNearEnemy = 1
    /\ Uncollected(roomStates["R1"].coins) < Len(roomStates["R1"].coins)
    /\ roomStates["R1"].deployedSinks = <<>>

\* C24: when a tick's snapshot is sent, the coin, immunity-pickup and
\* sink-collectible lists of the game state hold no collected entry,
\* the entries collected in that tick included.
C24_PurgeBeforeBroadcast ==
    lastAction.name = "tick" =>
        \A c \in lastTick.updated :
            /\ Uncollected(roomStates[c].coins) = Len(roomStates[c].coins)
            /\ UncollectedPickups(roomStates[c].immunityPickups)
                  = Len(roomStates[c].immunityPickups)
            /\ Uncollected(roomStates[c].sinkCollectibles)
                  = Len(roomStates[c].sinkCollectibles)

\* The tile at (x, y) of the map that the last call of generateMap returned
TileAt(x, y) == lastAction.tiles[y][x]

Interior == 1..MapSide - 2

\* C27: in every generated map the tiles of the outer rows and columns are
\* all lava, no tile inside is lava, and every tile inside whose row or
\* column index is a multiple of 4 is road.
C27_PerimeterAndRoads ==
    lastAction.name = "generateMap" =>
        \A x, y \in 0..MapSide - 1 :
            /\ (x \notin Interior \/ y \notin Interior) => TileAt(x, y) = LAVA
            /\ (x \in Interior /\ y \in Interior) =>
                  /\ TileAt(x, y) # LAVA
                  /\ TileAt(x, y) \in {ROAD, SIDEWALK, GRASS, WATER}
                  /\ RoadCell(x, y) <=> TileAt(x, y) = ROAD

\* C27 witness: a generated map in which a water blot was drawn next to a
\* road: there is water beside a road tile, and water on a cell that was
\* visited after the blot
C27_Witness ==
    /\ lastAction.name = "generateMap"
    /\ \E x, y \in Interior :
          /\ TileAt(x, y) = WATER
          /\ RoadCell(x + 1, y) /\ x + 1 \in Interior
    /\ \E x, y \in Interior :
          /\ TileAt(x, y) = WATER
          /\ RoadCell(x, y + 1) /\ y + 1 \in Interior

OverlapsKind(pos, kinds) ==
    LET size == ENTITY_SIZE * Unit
        half == size \div 2
    IN \E gy \in (pos.y - half) \div TileSpan..(pos.y + half) \div TileSpan :
       \E gx \in (pos.x - half) \div TileSpan..(pos.x + half) \div TileSpan :
          /\ gy \in DOMAIN CityTiles
          /\ gx \in DOMAIN CityTiles[gy]
          /\ CityTiles[gy][gx] \in kinds
          /\ BoxOnTile(pos.x, pos.y, size, size, gx, gy)

\* C29: a player whose box overlaps no building and no water tile overlaps
\* none after the input of a tick has been applied, whatever keys it holds.
C29_BuildingsAndWaterBlockPlayers ==
    (lastAction.name = "applyInputToPlayer"
        /\ ~OverlapsKind(lastAction.before, {SIDEWALK, WATER}))
        => ~OverlapsKind(lastAction.after, {SIDEWALK, WATER})

\* C30: the box of an enemy never overlaps a building, water or lava tile,
\* where it is placed or after any move.
C30_EnemiesStayOnOpenTiles ==
    lastAction.name \in {"spawnEnemy", "updateEnemies"} =>
        ~OverlapsKind(lastAction.after, {SIDEWALK, WATER, LAVA})

\* C30 witness: an enemy moving along a diagonal had its X move refused,
\* since it would have put its box on a closed tile, and its Y move applied
C30_Witness ==
    /\ lastAction.name = "updateEnemies"
    /\ lastAction.move[1] # 0
    /\ lastAction.move[2] # 0
    /\ lastAction.after.x = lastAction.before.x
    /\ lastAction.after.y # lastAction.before.y
    /\ OverlapsKind([lastAction.after EXCEPT !.x = @ + lastAction.move[1]],
                    {SIDEWALK, WATER, LAVA})

\* C25: respawnPlayer puts the player on the centre of a road tile inside the
\* perimeter, whatever its draws; when one of its attempts succeeded, that
\* position is at least 500 units from every enemy.
C25_RespawnOnSafeRoad ==
    lastAction.name = "respawnPlayer" =>
        /\ \E tile \in InteriorTiles :
              /\ CityTiles[tile[2]][tile[1]] = ROAD
              /\ lastAction.at = TileCentre(tile[1], tile[2])
        /\ lastAction.found =>
              \A enemy \in lastAction.enemies :
                  (lastAction.at.x - enemy.x) * (lastAction.at.x - enemy.x)
                    + (lastAction.at.y - enemy.y) * (lastAction.at.y - enemy.y)
                      >= (RESPAWN_SAFE_DISTANCE * Unit) * (RESPAWN_SAFE_DISTANCE * Unit)

\* C25 witness: the first draw was a road tile too near an enemy and the
\* second one succeeded
C25_Witness ==
    /\ lastAction.name = "respawnPlayer"
    /\ lastAction.found
    /\ lastAction.enemies # {}
    /\ CityTiles[lastAction.draws[1][2]][lastAction.draws[1][1]] = ROAD
    /\ lastAction.at # TileCentre(lastAction.draws[1][1], lastAction.draws[1][2])

\* C28: in every tick whose game time has reached the end time of a player's
\* immunity, an enemy within reach of that player signals its death, whether
\* or not the player has sent an input.
C28_ImmunityExpires ==
    \A c \in lastTick.updated :
        \A k \in 1..Len(roomStates[c].players) :
            LET player == roomStates[c].players[k]
            IN (/\ LastContact(c, player.id).enemies > 0
                /\ ~LastContact(c, player.id).lava
                /\ roomStates[c].gameTime >= player.immunityEndTime)
                  => Deaths(player.id, "enemy") # {}

----------------------------------------------------------------------------
(* Speed, portal lifetime and membership properties *)

\* C40: in every state, every player of a match whose speed-boost flag is
\* set has 1.2 times the base player speed, and every player of a match
\* whose flag is not set has the base speed.
C40_SpeedFollowsBoostFlag ==
    \A c \in DOMAIN roomStates :
        \A k \in 1..Len(roomStates[c].players) :
            roomStates[c].players[k].speed =
                IF roomStates[c].speedBoostApplied
                THEN Boosted(BASE_PLAYER_SPEED) ELSE BASE_PLAYER_SPEED

\* C39: at most one interval timer is armed, and one is armed exactly while
\* the loop is running (so a start after a stop arms one again); a start
\* while the loop is running changes nothing; no tick happens while the loop
\* is stopped.
C39_StartStop ==
    /\ [](/\ Cardinality(gameLoop.timers) <= 1
          /\ gameLoop.timers = IF gameLoop.isRunning
                               THEN {gameLoop.tickInterval} ELSE {})
    /\ [][/\ (lastAction'.name = "start" /\ gameLoop.isRunning)
                => gameLoop' = gameLoop
          /\ lastTick'.n # lastTick.n => gameLoop.isRunning]_vars

\* C39 witness: the loop was started, stopped and started again, and the
\* room has ticked since the last start
C39_Witness ==
    /\ gameLoop.made = MaxStarts
    /\ gameLoop.isRunning
    /\ lastAction.name = "tick"
    /\ lastTick.updated # {}

\* The portals of a list that have a lifetime, and those that have none
TimedPortals(portals) == SelectSeq(portals, LAMBDA p : p.timed)

StaticPortals(portals) == SelectSeq(portals, LAMBDA p : ~p.timed)

\* C37: in every state every portal with a lifetime has some of it left; a
\* tick takes one tick off the lifetime of each and removes exactly those
\* that had one tick left; the portals without a lifetime, the four that the
\* map was generated with, stay as they are in every step.
C37_PortalLifetime ==
    /\ [](\A c \in DOMAIN roomStates :
            /\ \A i \in 1..Len(roomStates[c].portals) :
                  roomStates[c].portals[i].timed => roomStates[c].portals[i].life > 0
            /\ Len(StaticPortals(roomStates[c].portals)) = INITIAL_PORTALS)
    /\ [][\A c \in DOMAIN roomStates \cap DOMAIN roomStates' :
            /\ StaticPortals(roomStates'[c].portals) = StaticPortals(roomStates[c].portals)
            /\ (lastTick'.n # lastTick.n /\ c \in lastTick'.updated) =>
                  TimedPortals(roomStates'[c].portals) =
                      LET aged == TimedPortals(roomStates[c].portals)
                      IN SelectSeq([i \in 1..Len(aged) |->
                                       [aged[i] EXCEPT !.life = @ - 1]],
                                   LAMBDA p : p.life > 0)]_vars

\* C37 witness: the portal that p1 made has run out and is gone, while a
\* portal made during the scenario is still there
C37_Witness ==
    /\ lastAction.name = "tick"
    /\ lastTick.n = MaxTicks
    /\ Len(TimedPortals(roomStates["R1"].portals)) = 1
    /\ TimedPortals(roomStates["R1"].portals)[1].life > Seconds(PORTAL_LIFE) - MaxTicks

\* C31: a player is teleported at most once in a tick: arriving on the
\* destination portal starts no further teleport in the same pass.
C31_OneTeleportPerTick ==
    \A s \in Sockets : Cardinality(Hops(s)) <= 1

\* C32: initializePlayers puts every player on the centre of a road tile,
\* whatever its draws.
C32_InitialSpawnOnRoad ==
    lastAction.name = "initializePlayers" =>
        \E tile \in InteriorTiles :
            /\ CityTiles[tile[2]][tile[1]] = ROAD
            /\ lastAction.at = TileCentre(tile[1], tile[2])

\* C33: in every tick of a playing room in which a deployed sink has an
\* enemy within reach at the interaction pass of every player, a deployed
\* sink is removed, whatever the situation of the players.
C33_SinkConsumedByEnemy ==
    [][lastTick'.n = lastTick.n + 1 =>
          \A c \in UpdatedRooms :
              (/\ roomStates[c].enemies # <<>>
               /\ roomStates[c].deployedSinks # <<>>
               /\ \A k \in 1..Len(roomStates[c].players) :
                     lastTick'.outcome[c].contact[roomStates[c].players[k].id]
                         .sinksNearEnemy > 0)
                => Len(roomStates'[c].deployedSinks) < Len(roomStates[c].deployedSinks)]_vars

\* C34: for a player and an enemy closer than 24 units, a death is signalled
\* exactly when the player's immunity is inactive; when it is active, the
\* enemy is moved to the centre of a road tile at least 500 units from the
\* player and is no longer in contact.
C34_EnemyContact ==
    (lastAction.name = "checkCollisions"
        /\ InContact(lastAction.player, lastAction.enemy)) =>
        /\ lastAction.death <=> ~lastAction.immunityActive
        /\ lastAction.immunityActive =>
              /\ \E tile \in InteriorTiles :
                    /\ CityTiles[tile[2]][tile[1]] = ROAD
                    /\ lastAction.after = TileCentre(tile[1], tile[2])
              /\ Distance2(lastAction.after, lastAction.player)
                    >= (PUSH_AWAY_DISTANCE * Unit) * (PUSH_AWAY_DISTANCE * Unit)
              /\ ~InContact(lastAction.player, lastAction.after)

\* Whether the enemy observed in lastAction is in flank mode
Flanking(action) == action.enemy.flankTimer > 0

C36_FlankExpiry ==
    /\ [](lastAction.name = "updateEnemies" =>
            lastAction.enemy.flankTimer \in 0..FLANK_TIME)
    /\ [][lastAction'.name = "updateEnemies" =>
            /\ (~Flanking(lastAction) /\ Flanking(lastAction')) =>
                  lastAction'.enemy.flankTimer = FLANK_TIME
            /\ Flanking(lastAction) =>
                  /\ lastAction'.enemy.flankTimer = lastAction.enemy.flankTimer - 1
                  /\ lastAction'.move = lastAction.enemy.flankDir
                  /\ lastAction'.enemy.flankDir = lastAction.enemy.flankDir
                  /\ Flanking(lastAction') =>
                        lastAction'.enemy.stuckTime = lastAction.enemy.stuckTime
                  /\ ~Flanking(lastAction') =>
                        lastAction'.enemy.stuckTime =
                            IF BelowHalf(lastAction'.actual) THEN 1 ELSE 0
            /\ ~Flanking(lastAction) => lastAction'.move = lastAction'.line]_vars
    /\ Flanking(lastAction) ~> ~Flanking(lastAction)

C36_Witness ==
    /\ lastAction.name = "updateEnemies"
    /\ ~Flanking(lastAction)
    /\ lastAction.enemy.flankDir # NoDirection
    /\ lastAction.move = lastAction.enemy.flankDir
    /\ lastAction.enemy.stuckTime = 0

\* The ids of a GameState's players, in order
IdsOf(gameState) == [k \in 1..Len(gameState.players) |-> gameState.players[k].id]

\* C38: right after a match starts, the ids of the GameState's players are
\* the room's members at that moment, in order; no other step (tick, input,
\* item, respawn, join attempt, leave, disconnect) changes them while the
\* GameState exists, and no join of a playing room is accepted.
C38_PlayerListFixed ==
    [][/\ \A c \in RoomCodes :
             IF /\ lastAction'.name = "start_game"
                /\ lastAction'.result = "ok"
                /\ GetRoomCodeForSocket(lastAction'.socket) = c
             THEN /\ c \in DOMAIN roomStates'
                  /\ IdsOf(roomStates'[c]) = rooms'[RoomIndex(c)].players
             ELSE (c \in DOMAIN roomStates /\ c \in DOMAIN roomStates') =>
                      IdsOf(roomStates'[c]) = IdsOf(roomStates[c])
       /\ (lastAction'.name = "join_room" /\ lastAction'.result = "ok") =>
             \A i \in 1..Len(rooms) :
                 rooms[i].status = "playing" => rooms'[i] = rooms[i]]_vars

C38_Witness ==
    /\ "R1" \in DOMAIN roomStates
    /\ IdsOf(roomStates["R1"]) = <<"p1", "p2">>
    /\ RoomIndex("R1") # 0
    /\ GetRoom("R1").players = <<"p2">>
    /\ lastAction.name = "respawn_player"
    /\ lastAction.result = "ok"
    /\ lastTick.updated # {}

====
